---- MODULE Spec2Model ----
(***************************************************************************)
(* Cross-chain bridge verifier core of mini-defi: the relayer registry     *)
(* (RelayerManager), the quorum gateway (GatewayV3), the signature/proof   *)
(* gateway (Gateway) and the merkle light client (LightClientMerkle).      *)
(*                                                                         *)
(* Byte strings are sequences of chunks [v, h, s, w] of w bytes each: a    *)
(* big-endian integer v, the UTF-8 bytes of a string s, or the 32 bytes of *)
(* a digest h.  keccak256 is a free constructor, so two byte strings hash  *)
(* alike iff they are equal; of the bytes of a digest only the class of    *)
(* the first one (list-tagged or not) is ever read, through LeadByte.      *)
(***************************************************************************)
EXTENDS Integers, Sequences, FiniteSets, TLC

\* ---------------------------------------------------------------- bounds
MaxRelayers == 2
MaxNonce == 2
MaxDepth == 1
MaxLeaves == 3
MaxBlock == 2

\* ------------------------------------------------------------- addresses
RelayerAddrs == 1..MaxRelayers
Owner == MaxRelayers + 1
Alice == MaxRelayers + 2
Bob == MaxRelayers + 3
Mallory == MaxRelayers + 4
Tok == MaxRelayers + 5
Wrapped == MaxRelayers + 6
Receiver == MaxRelayers + 7
Evil == MaxRelayers + 8
LightClient == MaxRelayers + 9
ZeroAddress == 0
Chains == [src |-> 1, dst |-> 2]
\* the chains a caller may name: the destination and one nobody registered
DestChains == {Chains.dst, Chains.dst + 1}

\* ------------------------------------------------------- bytes and keccak
\* A byte string is a sequence of chunks [w, v, h, s] of w bytes each:
\*   a big-endian integer v (h = <<>>, s = ""), the UTF-8 bytes of s, or the
\*   32 bytes of the digest h.  keccak256 is a free constructor over them.
Num(n, w) == [w |-> w, v |-> n, h |-> <<>>, s |-> ""]
Byte(b) == <<Num(b, 1)>>
Utf8(str) == <<[w |-> Len(str), v |-> 0, h |-> <<>>, s |-> str]>>
ZeroHash == <<>>
Keccak(bytes) == <<Num(0, 0)>> \o bytes
Bytes32(d) == IF d = ZeroHash THEN <<Num(0, 32)>> ELSE <<[w |-> 32, v |-> 0, h |-> d, s |-> ""]>>
Uint256(n) == <<Num(n, 32)>>
AbiAddress(a) == <<Num(a, 32)>>
PackedAddress(a) == <<Num(a, 20)>>

\* ------------------------------------------------------------ MessageLib
DOMAIN_TYPEHASH ==
  Keccak(Utf8("CrossChainMessage(uint256 nonce,uint256 fromChainId,uint256 toChainId,address sender,address target,bytes data,uint256 value)"))
TOKEN_TYPEHASH ==
  Keccak(Utf8("TokenTransfer(uint256 nonce,uint256 fromChainId,uint256 toChainId,address sender,address token,address recipient,uint256 amount)"))
hashMessage(nonce, fromChainId, toChainId, sender, target, data, value) ==
  Keccak(Bytes32(DOMAIN_TYPEHASH) \o Uint256(nonce) \o Uint256(fromChainId)
         \o Uint256(toChainId) \o AbiAddress(sender) \o AbiAddress(target)
         \o Bytes32(Keccak(data)) \o Uint256(value))
hashToken(nonce, fromChainId, toChainId, sender, token, recipient, amount) ==
  Keccak(Bytes32(TOKEN_TYPEHASH) \o Uint256(nonce) \o Uint256(fromChainId)
         \o Uint256(toChainId) \o AbiAddress(sender) \o AbiAddress(token)
         \o AbiAddress(recipient) \o Uint256(amount))

VARIABLES relayerSet, isRelayer, paused, usedProofs, effects,
          gateway, usedSignatures, gwEffects,
          receiptsRootOf, latestRoot, highLead,
          now, leaderFiles, lockFiles, pendingFiles, pending, handler, dead, sent,
          aggPending, aggInFlight,
          stakes, checkpointClient, validatorsClient,
          nonce, registry, balances,
          wallet

rmVars == <<relayerSet, isRelayer, stakes>>
v3Vars == <<paused, usedProofs, effects>>
gwVars == <<gateway, usedSignatures, gwEffects>>
lcVars == <<receiptsRootOf, latestRoot, highLead>>
\* the relay coordinator: clock, shared pending directory, per-process memory
coVars == <<now, leaderFiles, lockFiles, pendingFiles, pending, handler, dead, sent>>
\* the signature aggregator
aggVars == <<aggPending, aggInFlight>>
\* LightClientCheckpoint and LightClientValidators
clVars == <<checkpointClient, validatorsClient>>
\* the sender side of GatewayV3, its ChainRegistry and the bridged token
srcVars == <<nonce, registry, balances>>
\* the SimpleMultiSig wallet
msVars == <<wallet>>
vars == <<relayerSet, isRelayer, paused, usedProofs, effects,
          gateway, usedSignatures, gwEffects, receiptsRootOf, latestRoot, highLead,
          now, leaderFiles, lockFiles, pendingFiles, pending, handler, dead, sent,
          aggPending, aggInFlight, stakes, checkpointClient, validatorsClient,
          nonce, registry, balances, wallet>>

\* -------------------------------------------------------- RelayerManager
\* relayerSet with the entry of `who` overwritten by the last entry, then popped
RemoveRelayer(set, who) ==
  LET i == CHOOSE k \in 1..Len(set) : set[k] = who
      swapped == [set EXCEPT ![i] = set[Len(set)]]
  IN SubSeq(swapped, 1, Len(set) - 1)

\* faulty variant: two thirds, without the one more
signatureThreshold_TwoThirds(set) ==
  LET n == Len(set) IN IF n = 0 THEN 0 ELSE (n * 2) \div 3

signatureThreshold(set) ==
  LET n == Len(set) IN IF n = 0 THEN 0 ELSE (n * 2) \div 3 + 1

\* the stake every relayer deposits (a constructor argument), in token units
minStake == 2

Stake(who) ==
  /\ who \notin isRelayer
  /\ stakes' = [stakes EXCEPT ![who] = minStake]
  /\ isRelayer' = isRelayer \cup {who}
  /\ relayerSet' = Append(relayerSet, who)
  /\ UNCHANGED <<v3Vars, gwVars, lcVars, coVars, aggVars, clVars, srcVars, msVars>>

Unstake(who) ==
  /\ who \in isRelayer
  /\ relayerSet' = RemoveRelayer(relayerSet, who)
  /\ isRelayer' = isRelayer \ {who}
  /\ stakes' = [stakes EXCEPT ![who] = 0]
  /\ UNCHANGED <<v3Vars, gwVars, lcVars, coVars, aggVars, clVars, srcVars, msVars>>

\* slash(relayer, amount) called by `caller`: onlyOwner, then the two requires
Slash(caller, relayer, amount) ==
  /\ caller = Owner
  /\ relayer \in isRelayer
  /\ amount <= stakes[relayer]
  /\ stakes' = [stakes EXCEPT ![relayer] = @ - amount]
  /\ UNCHANGED <<relayerSet, isRelayer>>
  /\ UNCHANGED <<v3Vars, gwVars, lcVars, coVars, aggVars, clVars, srcVars, msVars>>

\* ------------------------------------------------------------ signatures
\* A 65-byte signature made by `signer` over the prefixed `digest`.
Sig(signer, digest) == [signer |-> signer, digest |-> digest]

\* ecrecover over the prefixed digest: the signer when the signature was made
\* over this digest, otherwise an address nobody controls.
Recover(digest, sig) == IF sig.digest = digest THEN sig.signer ELSE ZeroAddress

\* ------------------------------------------------------------- GatewayV3
RECURSIVE QuorumLoop(_, _, _, _, _, _)
QuorumLoop(relayers, digest, sigs, threshold, i, seen) ==
  IF i > threshold THEN "ok"
  ELSE LET signer == Recover(digest, sigs[i]) IN
       IF signer \notin relayers THEN "invalid signer"
       ELSE IF \E j \in 1..(i - 1) : seen[j] = signer THEN "duplicate signature"
       ELSE QuorumLoop(relayers, digest, sigs, threshold, i + 1, Append(seen, signer))

\* faulty variant: the length test rejects a list of exactly threshold signatures
VerifyQuorum_OffByOne(set, relayers, digest, sigs) ==
  LET threshold == signatureThreshold(set) IN
  IF threshold = 0 THEN "threshold=0"
  ELSE IF Len(sigs) <= threshold THEN "not enough signatures"
  ELSE QuorumLoop(relayers, digest, sigs, threshold, 1, <<>>)

\* _verifyQuorum: "ok" or the revert reason
VerifyQuorum(set, relayers, digest, sigs) ==
  LET threshold == signatureThreshold(set) IN
  IF threshold = 0 THEN "threshold=0"
  ELSE IF Len(sigs) < threshold THEN "not enough signatures"
  ELSE QuorumLoop(relayers, digest, sigs, threshold, 1, <<>>)

\* The effects a digest has caused so far (mints and target calls).
EffectsOf(eff, d) == {e \in eff : e.digest = d}
AddEffect(eff, c) ==
  eff \cup {[digest |-> c.digest, n |-> Cardinality(EffectsOf(eff, c.digest)) + 1,
             op |-> c.op, target |-> c.target, party |-> c.party, amount |-> c.amount]}

\* A call is [op, target, party, amount, fromChainId, data, digest, sigs, inner]:
\*   mintWrapped(wrappedToken = target, recipient = party, amount, sourceTxHash = digest, sigs)
\*   executeMessage(fromChainId, sender = party, target, data, value = amount,
\*                  sourceMsgHash = digest, sigs)
\* inner is <<>> or <<c>>: the call the callee (when it is Evil) makes back into
\* the gateway while it runs.  st is [used, effects]; the result is [st, reason].
RECURSIVE V3Call(_, _, _, _, _)
V3Reenter(set, relayers, isPaused, st, c) ==
  IF c.target = Evil /\ c.inner # <<>>
  THEN V3Call(set, relayers, isPaused, st, c.inner[1]).st
  ELSE st

\* faulty variant: the digest is marked consumed only after the mint returns
mintWrapped_MarkAfterMint(set, relayers, isPaused, st, c) ==
  IF isPaused THEN [st |-> st, reason |-> "EnforcedPause"]
  ELSE IF c.digest \in st.used THEN [st |-> st, reason |-> "proof used"]
  ELSE LET q == VerifyQuorum(set, relayers, c.digest, c.sigs) IN
       IF q # "ok" THEN [st |-> st, reason |-> q]
       ELSE LET after == V3Reenter(set, relayers, isPaused, st, c)
            IN [st |-> [after EXCEPT !.used = @ \cup {c.digest},
                                     !.effects = AddEffect(@, c)],
                reason |-> "ok"]

mintWrapped(set, relayers, isPaused, st, c) ==
  IF isPaused THEN [st |-> st, reason |-> "EnforcedPause"]
  ELSE IF c.digest \in st.used THEN [st |-> st, reason |-> "proof used"]
  ELSE LET q == VerifyQuorum(set, relayers, c.digest, c.sigs) IN
       IF q # "ok" THEN [st |-> st, reason |-> q]
       ELSE LET marked == [st EXCEPT !.used = @ \cup {c.digest}]
                after == V3Reenter(set, relayers, isPaused, marked, c)
            IN [st |-> [after EXCEPT !.effects = AddEffect(@, c)], reason |-> "ok"]

\* the 4-byte selector of a function signature
Selector(signature) == <<[w |-> 4, v |-> 0, h |-> Keccak(Utf8(signature)), s |-> ""]>>

\* (bool ok, ) = target.call{value: value}(data): the gateway holds no ether, so
\* a call that carries value fails; TestReceiver has increment(uint256) and
\* nothing else, not payable; the contract of an attacker accepts what it likes.
\* A call that fails leaves nothing behind, and executeMessage goes on.
targetCall(c) ==
  /\ c.amount = 0
  /\ c.target = Receiver =>
       Len(c.data) = 2 /\ <<c.data[1]>> = Selector("increment(uint256)")

\* faulty variant: executeMessage does not look the digest up in usedProofs
executeMessage_NoReplayGuard(set, relayers, isPaused, st, c) ==
  IF isPaused THEN [st |-> st, reason |-> "EnforcedPause"]
  ELSE LET expected == hashMessage(0, c.fromChainId, Chains.dst, c.party, c.target,
                                   c.data, c.amount) IN
       IF expected # c.digest THEN [st |-> st, reason |-> "hash mismatch"]
       ELSE LET q == VerifyQuorum(set, relayers, c.digest, c.sigs) IN
            IF q # "ok" THEN [st |-> st, reason |-> q]
            ELSE LET marked == [st EXCEPT !.used = @ \cup {c.digest}]
                     after == V3Reenter(set, relayers, isPaused, marked, c)
                 IN IF targetCall(c)
                    THEN [st |-> [after EXCEPT !.effects = AddEffect(@, c)], reason |-> "ok"]
                    ELSE [st |-> marked, reason |-> "ok"]

executeMessage(set, relayers, isPaused, st, c) ==
  IF isPaused THEN [st |-> st, reason |-> "EnforcedPause"]
  ELSE IF c.digest \in st.used THEN [st |-> st, reason |-> "proof used"]
  ELSE LET expected == hashMessage(0, c.fromChainId, Chains.dst, c.party, c.target,
                                   c.data, c.amount) IN
       IF expected # c.digest THEN [st |-> st, reason |-> "hash mismatch"]
       ELSE LET q == VerifyQuorum(set, relayers, c.digest, c.sigs) IN
            IF q # "ok" THEN [st |-> st, reason |-> q]
            ELSE LET marked == [st EXCEPT !.used = @ \cup {c.digest}]
                     after == V3Reenter(set, relayers, isPaused, marked, c)
                 IN IF targetCall(c)
                    THEN [st |-> [after EXCEPT !.effects = AddEffect(@, c)], reason |-> "ok"]
                    ELSE [st |-> marked, reason |-> "ok"]

V3Call(set, relayers, isPaused, st, c) ==
  IF c.op = "mintWrapped" THEN mintWrapped(set, relayers, isPaused, st, c)
  ELSE executeMessage(set, relayers, isPaused, st, c)

\* ------------------------------------------------- source events and inputs
\* iface.encodeFunctionData('increment', [7]): the 4-byte selector, then the argument
IncrementData == Selector("increment(uint256)") \o Uint256(7)

\* TokensLocked / MessageSent events of the source gateway
TokenIntents ==
  [nonce : {1}, fromChainId : {Chains.src}, toChainId : {Chains.dst},
   sender : {Alice}, token : {Tok}, recipient : {Bob}, amount : {1}]
Messages ==
  [nonce : 1..MaxNonce, fromChainId : {Chains.src}, toChainId : {Chains.dst},
   sender : {Alice}, target : {Receiver, Evil}, data : {IncrementData}, value : {0}]

\* faulty variant: the relayer encodes the two chain ids in the other order
relayerHashMessage_ChainsSwapped(fromChainId, toChainId, sender, target, data, value) ==
  Keccak(Bytes32(DOMAIN_TYPEHASH) \o Uint256(0) \o Uint256(toChainId)
         \o Uint256(fromChainId) \o AbiAddress(sender) \o AbiAddress(target)
         \o Bytes32(Keccak(data)) \o Uint256(value))

\* the digests the relayers compute and sign for these events
relayerHashMessage(fromChainId, toChainId, sender, target, data, value) ==
  Keccak(Bytes32(DOMAIN_TYPEHASH) \o Uint256(0) \o Uint256(fromChainId)
         \o Uint256(toChainId) \o AbiAddress(sender) \o AbiAddress(target)
         \o Bytes32(Keccak(data)) \o Uint256(value))
IntentDigest(t) ==
  hashToken(t.nonce, t.fromChainId, t.toChainId, t.sender, t.token, t.recipient, t.amount)
MessageDigest(m) ==
  relayerHashMessage(m.fromChainId, m.toChainId, m.sender, m.target, m.data, m.value)
IntentDigests == {IntentDigest(t) : t \in TokenIntents}
MessageDigests == {MessageDigest(m) : m \in Messages}
Digests == IntentDigests \cup MessageDigests

\* signature lists a caller can present for digest d
SigValues(d) == {Sig(r, d) : r \in RelayerAddrs}
SigLists(d) == UNION {[1..n -> SigValues(d)] : n \in 0..MaxRelayers}

MintRequests ==
  {[target |-> Wrapped, party |-> Bob, amount |-> 1],
   [target |-> Evil, party |-> Mallory, amount |-> 2]}
MintCall(r, d, sigs, inner) ==
  [op |-> "mintWrapped", target |-> r.target, party |-> r.party, amount |-> r.amount,
   fromChainId |-> 0, data |-> <<>>, digest |-> d, sigs |-> sigs, inner |-> inner]
ExecCall(m, d, sigs, inner) ==
  [op |-> "executeMessage", target |-> m.target, party |-> m.sender, amount |-> m.value,
   fromChainId |-> m.fromChainId, data |-> m.data, digest |-> d, sigs |-> sigs,
   inner |-> inner]

\* what a re-entered callee can call back with: any request on the digest and
\* with the signature list of the call it was reached through, nested to depth
\* (a call on another digest cannot pass the quorum check with these signatures)
RECURSIVE Reentries(_, _)
Reentries(c, depth) ==
  IF depth = 0 \/ c.target # Evil THEN {<<>>}
  ELSE {<<>>}
    \cup {<<MintCall(r, c.digest, c.sigs, i)>> :
            r \in MintRequests, i \in Reentries(c, depth - 1)}
    \cup {<<ExecCall(m, c.digest, c.sigs, i)>> :
            m \in {x \in Messages : x.nonce = 1}, i \in Reentries(c, depth - 1)}

\* ------------------------------------------------------------ transactions
\* A transaction that reverts leaves the chain state as it was; one that is
\* accepted installs the state its call (and what the callee did) produced.
V3State == [used |-> usedProofs, effects |-> effects]
V3Result(c) == V3Call(relayerSet, isRelayer, paused, V3State, c)
V3Transact(c) ==
  /\ V3Result(c).reason = "ok"
  /\ \E i \in Reentries(c, MaxDepth) :
       LET res == V3Result([c EXCEPT !.inner = i])
       IN /\ usedProofs' = res.st.used
          /\ effects' = res.st.effects

MintWrapped ==
  /\ \E r \in MintRequests, d \in Digests : \E sigs \in SigLists(d) :
       V3Transact(MintCall(r, d, sigs, <<>>))
  /\ UNCHANGED <<rmVars, paused, gwVars, lcVars, coVars, aggVars, clVars, srcVars, msVars>>

ExecuteMessage ==
  /\ \E m \in {x \in Messages : x.nonce = 1}, d \in MessageDigests :
       \E sigs \in SigLists(d) : V3Transact(ExecCall(m, d, sigs, <<>>))
  /\ UNCHANGED <<rmVars, paused, gwVars, lcVars, coVars, aggVars, clVars, srcVars, msVars>>

\* pause / unpause of GatewayV3: onlyOwner, then Pausable's whenNotPaused /
\* whenPaused; the result is [paused, reason]
PauseCallers == {Owner, Mallory}
GatewayV3_pause(isPaused, caller) ==
  IF caller # Owner
  THEN [paused |-> isPaused, reason |-> "OwnableUnauthorizedAccount"]
  ELSE IF isPaused THEN [paused |-> isPaused, reason |-> "EnforcedPause"]
  ELSE [paused |-> TRUE, reason |-> "ok"]
GatewayV3_unpause(isPaused, caller) ==
  IF caller # Owner
  THEN [paused |-> isPaused, reason |-> "OwnableUnauthorizedAccount"]
  ELSE IF ~isPaused THEN [paused |-> isPaused, reason |-> "ExpectedPause"]
  ELSE [paused |-> FALSE, reason |-> "ok"]

Pause ==
  /\ \E caller \in PauseCallers :
       /\ GatewayV3_pause(paused, caller).reason = "ok"
       /\ paused' = GatewayV3_pause(paused, caller).paused
  /\ UNCHANGED <<rmVars, usedProofs, effects, gwVars, lcVars, coVars, aggVars, clVars, srcVars, msVars>>

Unpause ==
  /\ \E caller \in PauseCallers :
       /\ GatewayV3_unpause(paused, caller).reason = "ok"
       /\ paused' = GatewayV3_unpause(paused, caller).paused
  /\ UNCHANGED <<rmVars, usedProofs, effects, gwVars, lcVars, coVars, aggVars, clVars, srcVars, msVars>>

\* messages whose call on the destination fails: value the gateway cannot pay
FailingMessages ==
  [nonce : {1}, fromChainId : {Chains.src}, toChainId : {Chains.dst},
   sender : {Alice}, target : {Receiver}, data : {IncrementData}, value : {1}]
FailingCalls ==
  UNION {{ExecCall(m, MessageDigest(m), sigs, <<>>) : sigs \in SigLists(MessageDigest(m))} :
           m \in FailingMessages}
ExecuteFailing ==
  /\ \E c \in FailingCalls : V3Transact(c)
  /\ UNCHANGED <<rmVars, paused, gwVars, lcVars, coVars, aggVars, clVars, srcVars, msVars>>

StakeAny == \E who \in RelayerAddrs : Stake(who)
UnstakeAny == \E who \in RelayerAddrs : Unstake(who)
SlashAny ==
  \E caller \in {Owner, Mallory}, relayer \in RelayerAddrs, amount \in 1..minStake :
    Slash(caller, relayer, amount)

\* every call of the input universe, without re-entry
MintCalls ==
  UNION {{MintCall(r, d, sigs, <<>>) : r \in MintRequests, sigs \in SigLists(d)} :
           d \in Digests}
ExecCalls ==
  UNION {{ExecCall(m, d, sigs, <<>>) : m \in Messages, sigs \in SigLists(d)} :
           d \in MessageDigests}
V3Calls == MintCalls \cup ExecCalls
\* the calls a relayer assembles for an event it observed: the digest is the one
\* it computed for the arguments it submits
RelayerCalls ==
  MintCalls \cup
  {c \in ExecCalls :
     c.digest = relayerHashMessage(c.fromChainId, Chains.dst, c.party, c.target,
                                   c.data, c.amount)}

\* ------------------------------------------------------- reading bytes
\* First byte of a digest: its value is fixed by keccak and unknown to the
\* model; highLead holds the digests whose first byte is an RLP list tag.
LeadByte(d) == IF d \in highLead THEN 192 ELSE 0

RECURSIVE ByteLen(_)
ByteLen(bytes) == IF bytes = <<>> THEN 0 ELSE Head(bytes).w + ByteLen(Tail(bytes))

\* byte k (from 0) of a chunk; the integers of the model fit in four bytes
ChunkByte(ch, k) ==
  IF ch.h # <<>> THEN (IF k = 0 THEN LeadByte(ch.h) ELSE 0)
  ELSE IF ch.w - 1 - k >= 4 THEN 0
  ELSE (ch.v \div (256 ^ (ch.w - 1 - k))) % 256

RECURSIVE ByteAt(_, _)
ByteAt(bytes, pos) ==
  IF pos < Head(bytes).w THEN ChunkByte(Head(bytes), pos)
  ELSE ByteAt(Tail(bytes), pos - Head(bytes).w)

\* ------------------------------------------------ rlpValidator.js helpers
RlpThrow == [offset |-> -1, length |-> 0]

RECURSIVE readLengthLoop(_, _, _, _, _)
readLengthLoop(buf, offset, lenOfLen, i, val) ==
  IF i >= lenOfLen THEN val
  ELSE readLengthLoop(buf, offset, lenOfLen, i + 1, val * 256 + ByteAt(buf, offset + i))

\* -1 stands for the thrown Error
readLength(buf, offset, lenOfLen) ==
  IF lenOfLen <= 0 \/ lenOfLen > 32 THEN -1
  ELSE IF offset + lenOfLen > ByteLen(buf) THEN -1
  ELSE readLengthLoop(buf, offset, lenOfLen, 0, 0)

rlpItemPayload(b, pos) ==
  IF pos >= ByteLen(b) THEN RlpThrow
  ELSE LET prefix == ByteAt(b, pos) IN
    IF prefix <= 127 THEN [offset |-> pos, length |-> 1]
    ELSE IF prefix <= 183 THEN [offset |-> pos + 1, length |-> prefix - 128]
    ELSE IF prefix <= 191 THEN
      LET lenOfLen == prefix - 183 IN
      IF pos + 1 + lenOfLen > ByteLen(b) THEN RlpThrow
      ELSE LET len == readLength(b, pos + 1, lenOfLen) IN
           IF len < 0 THEN RlpThrow ELSE [offset |-> pos + 1 + lenOfLen, length |-> len]
    ELSE IF prefix <= 247 THEN [offset |-> pos + 1, length |-> prefix - 192]
    ELSE
      LET lenOfLen == prefix - 247 IN
      IF pos + 1 + lenOfLen > ByteLen(b) THEN RlpThrow
      ELSE LET len == readLength(b, pos + 1, lenOfLen) IN
           IF len < 0 THEN RlpThrow ELSE [offset |-> pos + 1 + lenOfLen, length |-> len]

\* the big-endian bytes of payloadLen.toString(16), padded to whole bytes
LenBytes(n) == IF n < 256 THEN <<Num(n, 1)>> ELSE <<Num(n, 2)>>

makeReceiptRLP(messageHash) ==
  LET item0 == Byte(160) \o Bytes32(messageHash)
      item1 == Byte(1)
      item2 == Byte(185) \o <<Num(256, 2)>> \o <<Num(0, 256)>>
      item3 == Byte(192)
      payload == item0 \o item1 \o item2 \o item3
      payloadLen == ByteLen(payload)
  IN IF payloadLen <= 55 THEN Byte(192 + payloadLen) \o payload
     ELSE Byte(247 + ByteLen(LenBytes(payloadLen))) \o LenBytes(payloadLen) \o payload

\* a thrown Error (an item that starts beyond the buffer) is FALSE here
validateReceiptRLP(raw) ==
  IF ByteLen(raw) = 0 THEN FALSE
  ELSE IF ByteAt(raw, 0) < 192 THEN FALSE
  ELSE LET top == rlpItemPayload(raw, 0) IN
    IF top = RlpThrow \/ top.offset + top.length # ByteLen(raw) THEN FALSE
    ELSE LET item0 == rlpItemPayload(raw, top.offset) IN
      IF item0 = RlpThrow \/ ~(item0.length = 1 \/ item0.length = 32) THEN FALSE
      ELSE LET item1 == rlpItemPayload(raw, item0.offset + item0.length) IN
        IF item1 = RlpThrow THEN FALSE
        ELSE LET item2 == rlpItemPayload(raw, item1.offset + item1.length) IN
          IF item2 = RlpThrow \/ item2.length # 256 THEN FALSE
          ELSE LET cursor == item2.offset + item2.length IN
            IF cursor >= ByteLen(raw) THEN FALSE
            ELSE ByteAt(raw, cursor) >= 192

\* bitmask[k - 1] (k from 1): bit j % 8 is set for every direction j of that byte
RECURSIVE PackByte(_, _, _)
PackByte(directions, k, j) ==
  IF j >= Len(directions) \/ j >= 8 * k THEN 0
  ELSE (IF directions[j + 1] # 0 THEN 2 ^ (j % 8) ELSE 0) + PackByte(directions, k, j + 1)

packDirections(directions) ==
  LET bitmaskLen == IF Len(directions) = 0 THEN 1 ELSE (Len(directions) + 7) \div 8
  IN [k \in 1..bitmaskLen |-> PackByte(directions, k, 8 * (k - 1))]

\* faulty variant: an odd last node is paired with itself
NextLayer_DuplicateLast(prev) ==
  [i \in 1..((Len(prev) + 1) \div 2) |->
     Keccak(Bytes32(prev[2 * i - 1])
            \o Bytes32(IF 2 * i <= Len(prev) THEN prev[2 * i] ELSE prev[2 * i - 1]))]

\* the next layer: nodes paired by two, an odd last node paired with ZeroHash
NextLayer(prev) ==
  [i \in 1..((Len(prev) + 1) \div 2) |->
     Keccak(Bytes32(prev[2 * i - 1])
            \o Bytes32(IF 2 * i <= Len(prev) THEN prev[2 * i] ELSE ZeroHash))]

RECURSIVE MerkleLayers_ThrowsEarly(_, _, _)
\* faulty variant: the guard throws when the limit is reached, not exceeded
MerkleLayers_ThrowsEarly(layers, iterations, maxIterations) ==
  IF Len(layers[Len(layers)]) <= 1 THEN layers
  ELSE IF iterations + 1 >= maxIterations THEN <<>>
  ELSE MerkleLayers_ThrowsEarly(Append(layers, NextLayer(layers[Len(layers)])),
                                iterations + 1, maxIterations)

RECURSIVE MerkleLayers(_, _, _)
MerkleLayers(layers, iterations, maxIterations) ==
  IF Len(layers[Len(layers)]) <= 1 THEN layers
  ELSE IF iterations + 1 > maxIterations THEN <<>>
  ELSE MerkleLayers(Append(layers, NextLayer(layers[Len(layers)])),
                    iterations + 1, maxIterations)

RECURSIVE MerklePath_SelfSibling(_, _, _)
\* faulty variant: a node without a neighbour gets itself as sibling
MerklePath_SelfSibling(layers, layer, index) ==
  IF layer > Len(layers) - 1 THEN [proof |-> <<>>, directions |-> <<>>]
  ELSE LET siblingIndex == IF index % 2 = 0 THEN index + 1 ELSE index - 1
           layerNodes == layers[layer]
           sibling == IF siblingIndex + 1 <= Len(layerNodes)
                      THEN layerNodes[siblingIndex + 1] ELSE layerNodes[index + 1]
           rest == MerklePath_SelfSibling(layers, layer + 1, index \div 2)
       IN [proof |-> <<sibling>> \o rest.proof,
           directions |-> <<index % 2>> \o rest.directions]

RECURSIVE MerklePath(_, _, _)
\* the siblings and directions of the node at `index` (from 0), from `layer` up
MerklePath(layers, layer, index) ==
  IF layer > Len(layers) - 1 THEN [proof |-> <<>>, directions |-> <<>>]
  ELSE LET siblingIndex == IF index % 2 = 0 THEN index + 1 ELSE index - 1
           layerNodes == layers[layer]
           sibling == IF siblingIndex + 1 <= Len(layerNodes)
                      THEN layerNodes[siblingIndex + 1] ELSE ZeroHash
           rest == MerklePath(layers, layer + 1, index \div 2)
       IN [proof |-> <<sibling>> \o rest.proof,
           directions |-> <<index % 2>> \o rest.directions]

\* [root, proofs, paths, thrown]
buildMerkle(leaves, maxIterations) ==
  IF Len(leaves) = 0
  THEN [root |-> ZeroHash, proofs |-> <<>>, paths |-> <<>>, thrown |-> FALSE]
  ELSE LET layers == MerkleLayers(<<leaves>>, 0, maxIterations) IN
    IF layers = <<>>
    THEN [root |-> ZeroHash, proofs |-> <<>>, paths |-> <<>>, thrown |-> TRUE]
    ELSE [root |-> layers[Len(layers)][1],
          proofs |-> [idx \in 1..Len(leaves) |-> MerklePath(layers, 1, idx - 1).proof],
          paths |-> [idx \in 1..Len(leaves) |->
                       packDirections(MerklePath(layers, 1, idx - 1).directions)],
          thrown |-> FALSE]

\* ------------------------------------------------------ LightClientMerkle
\* A proof is abi.encode(receiptRLP, siblings, bitmask), kept as the decoded triple.
Proof(receiptRLP, siblings, bitmask) ==
  [receiptRLP |-> receiptRLP, siblings |-> siblings, bitmask |-> bitmask]

\* faulty variant: bit 0 puts the sibling on the left
RECURSIVE FoldLoop_SiblingLeft(_, _, _, _)
FoldLoop_SiblingLeft(computed, siblings, bitmask, i) ==
  IF i >= Len(siblings) THEN computed
  ELSE LET b == bitmask[(i \div 8) + 1]
           siblingIsLeft == ((b \div (2 ^ (i % 8))) % 2) = 0
       IN FoldLoop_SiblingLeft(
            IF ~siblingIsLeft
            THEN Keccak(Bytes32(computed) \o Bytes32(siblings[i + 1]))
            ELSE Keccak(Bytes32(siblings[i + 1]) \o Bytes32(computed)),
            siblings, bitmask, i + 1)

RECURSIVE FoldLoop(_, _, _, _)
FoldLoop(computed, siblings, bitmask, i) ==
  IF i >= Len(siblings) THEN computed
  ELSE LET byteIndex == i \div 8
           bitIndex == i % 8
           b == bitmask[byteIndex + 1]
           siblingIsLeft == ((b \div (2 ^ bitIndex)) % 2) # 0
       IN FoldLoop(IF ~siblingIsLeft
                   THEN Keccak(Bytes32(computed) \o Bytes32(siblings[i + 1]))
                   ELSE Keccak(Bytes32(siblings[i + 1]) \o Bytes32(computed)),
                   siblings, bitmask, i + 1)

verifyProof(roots, headerId, proof) ==
  LET r == roots[headerId] IN
  IF r = ZeroHash THEN FALSE
  ELSE IF ByteLen(proof.receiptRLP) = 0 THEN FALSE
  ELSE IF ByteAt(proof.receiptRLP, 0) < 192 THEN FALSE
  ELSE IF Len(proof.bitmask) * 8 < Len(proof.siblings) THEN FALSE
  ELSE FoldLoop(Keccak(proof.receiptRLP), proof.siblings, proof.bitmask, 0) = r

\* ---------------------------------------------- receipts, trees and proofs
\* the transfers locked on the source chain, one per amount
Transfers ==
  [originalSender : {Alice}, originalToken : {Tok}, amount : 1..MaxLeaves,
   fromChainId : {Chains.src}]

\* keccak256(abi.encodePacked(sender, token, amount, fromChainId, tag [, headerRoot]))
receiveHash(tr) ==
  Keccak(PackedAddress(tr.originalSender) \o PackedAddress(tr.originalToken)
         \o Uint256(tr.amount) \o Uint256(tr.fromChainId) \o Utf8("receive"))
receiveProofHash(tr, headerRoot) ==
  Keccak(PackedAddress(tr.originalSender) \o PackedAddress(tr.originalToken)
         \o Uint256(tr.amount) \o Uint256(tr.fromChainId) \o Utf8("receive_proof")
         \o Bytes32(headerRoot))
unlockHash(tr) ==
  Keccak(PackedAddress(tr.originalSender) \o PackedAddress(tr.originalToken)
         \o Uint256(tr.amount) \o Uint256(tr.fromChainId) \o Utf8("unlock"))
messageHash(target, payload, fromChainId) ==
  Keccak(PackedAddress(target) \o payload \o Uint256(fromChainId) \o Utf8("message"))

TransferOf(amount) ==
  [originalSender |-> Alice, originalToken |-> Tok, amount |-> amount,
   fromChainId |-> Chains.src]
\* the receipt the tests make for a transfer, and its leaf
ReceiptOf(amount) == makeReceiptRLP(receiveProofHash(TransferOf(amount), ZeroHash))
LeafOf(amount) == Keccak(ReceiptOf(amount))

\* receipts that are not receipt envelopes: a 0x00 tag before the hash, a list
\* of one 32-byte item, and the 64 bytes an interior node is the hash of
WrongTagReceipt == Byte(0) \o Bytes32(receiveProofHash(TransferOf(1), ZeroHash))
ShortListReceipt ==
  Byte(225) \o Byte(160) \o Bytes32(receiveProofHash(TransferOf(1), ZeroHash))
NodeReceipt == Bytes32(LeafOf(1)) \o Bytes32(LeafOf(2))
MalformedReceipts == {WrongTagReceipt, ShortListReceipt, NodeReceipt}
Receipts == {ReceiptOf(a) : a \in 1..MaxLeaves} \cup MalformedReceipts \cup {<<>>}

\* the leaf lists checkpointed on the source chain
LeafLists ==
  {[i \in 1..n |-> LeafOf(i)] : n \in 1..MaxLeaves}
  \cup {<<Keccak(WrongTagReceipt)>>, <<Keccak(ShortListReceipt)>>}
MAX_ITERATIONS == 256
Trees == [l \in LeafLists |-> buildMerkle(l, MAX_ITERATIONS)]
TreeOf(leaves) == Trees[leaves]
TreeRoots == {TreeOf(l).root : l \in LeafLists}

Range(s) == {s[k] : k \in 1..Len(s)}
SiblingValues ==
  UNION {UNION {Range(TreeOf(l).proofs[i]) : i \in 1..Len(l)} : l \in LeafLists}
TreeDepth == Len(TreeOf([i \in 1..MaxLeaves |-> LeafOf(i)]).proofs[1])
SiblingLists == UNION {[1..n -> SiblingValues] : n \in 0..TreeDepth}
Bitmasks == {<<>>} \cup {<<b>> : b \in 0..(2 ^ TreeDepth - 1)}
Proofs == {Proof(r, s, m) : r \in Receipts, s \in SiblingLists, m \in Bitmasks}

\* header ids: a block hash, and the root of the largest tree used as its own id
RawHeader == Utf8("header")
BlockId == Keccak(RawHeader)
RootId == TreeOf([i \in 1..MaxLeaves |-> LeafOf(i)]).root
HeaderIds == {BlockId, RootId}
HeaderSubmissions == HeaderIds \X (TreeRoots \cup {ZeroHash})
CheckpointInputs == {RawHeader, Bytes32(RootId)}

\* Ownable(msg.sender): the deployer owns each light client
onlyOwner(caller) == caller = Owner
Unauthorized(st) == [st |-> st, reason |-> "OwnableUnauthorizedAccount"]

\* LightClientMerkle; st is [receiptsRootOf, latestRoot], the result [st, reason]
MerkleState == [receiptsRootOf |-> receiptsRootOf, latestRoot |-> latestRoot]
submitCheckpoint(st, caller, headerOrCheckpoint) ==
  IF ~onlyOwner(caller) THEN Unauthorized(st)
  ELSE LET root == IF ByteLen(headerOrCheckpoint) = 32
                   THEN Head(headerOrCheckpoint).h
                   ELSE Keccak(headerOrCheckpoint)
       IN [st |-> [receiptsRootOf |-> [st.receiptsRootOf EXCEPT ![root] = root],
                   latestRoot |-> root],
           reason |-> "ok"]
submitHeader(st, caller, headerId, receiptsRoot) ==
  IF ~onlyOwner(caller) THEN Unauthorized(st)
  ELSE [st |-> [receiptsRootOf |-> [st.receiptsRootOf EXCEPT ![headerId] = receiptsRoot],
                latestRoot |-> receiptsRoot],
        reason |-> "ok"]

\* LightClientCheckpoint; st is [accepted, latestRoot]
LightClientCheckpoint_submitCheckpoint(st, caller, headerOrCheckpoint) ==
  IF ~onlyOwner(caller) THEN Unauthorized(st)
  ELSE LET root == Keccak(headerOrCheckpoint)
       IN [st |-> [accepted |-> st.accepted \cup {root}, latestRoot |-> root],
           reason |-> "ok"]

\* LightClientValidators; st is [isValidator, accepted, latestRoot]
addValidator(st, caller, v) ==
  IF ~onlyOwner(caller) THEN Unauthorized(st)
  ELSE [st |-> [st EXCEPT !.isValidator = @ \cup {v}], reason |-> "ok"]
removeValidator(st, caller, v) ==
  IF ~onlyOwner(caller) THEN Unauthorized(st)
  ELSE [st |-> [st EXCEPT !.isValidator = @ \ {v}], reason |-> "ok"]
\* faulty variant: the submitter is not looked up in isValidator
LightClientValidators_submitCheckpoint_AnyCaller(st, caller, headerOrCheckpoint) ==
  LET root == Keccak(headerOrCheckpoint)
  IN [st |-> [st EXCEPT !.accepted = @ \cup {root}, !.latestRoot = root], reason |-> "ok"]
LightClientValidators_submitCheckpoint(st, caller, headerOrCheckpoint) ==
  IF caller \notin st.isValidator THEN [st |-> st, reason |-> "not validator"]
  ELSE LET root == Keccak(headerOrCheckpoint)
       IN [st |-> [st EXCEPT !.accepted = @ \cup {root}, !.latestRoot = root],
           reason |-> "ok"]

\* who calls the light clients, and whom the owner makes a validator
Submitters == {Owner, Alice, Mallory}
ValidatorCandidates == {Alice, Bob}

SubmitCheckpoint ==
  /\ \E caller \in Submitters, headerOrCheckpoint \in CheckpointInputs :
       LET res == submitCheckpoint(MerkleState, caller, headerOrCheckpoint)
       IN /\ res.reason = "ok"
          /\ receiptsRootOf' = res.st.receiptsRootOf
          /\ latestRoot' = res.st.latestRoot
  /\ UNCHANGED <<rmVars, v3Vars, gwVars, highLead, coVars, aggVars, clVars, srcVars, msVars>>

SubmitHeader ==
  /\ \E caller \in Submitters, s \in HeaderSubmissions :
       LET res == submitHeader(MerkleState, caller, s[1], s[2])
       IN /\ res.reason = "ok"
          /\ receiptsRootOf' = res.st.receiptsRootOf
          /\ latestRoot' = res.st.latestRoot
  /\ UNCHANGED <<rmVars, v3Vars, gwVars, highLead, coVars, aggVars, clVars, srcVars, msVars>>

CheckpointSubmit ==
  /\ \E caller \in Submitters, headerOrCheckpoint \in CheckpointInputs :
       LET res == LightClientCheckpoint_submitCheckpoint(checkpointClient, caller,
                                                         headerOrCheckpoint)
       IN res.reason = "ok" /\ checkpointClient' = res.st
  /\ UNCHANGED <<rmVars, v3Vars, gwVars, lcVars, coVars, aggVars, validatorsClient, srcVars, msVars>>

ValidatorsSubmit ==
  /\ \E caller \in Submitters, headerOrCheckpoint \in CheckpointInputs :
       LET res == LightClientValidators_submitCheckpoint(validatorsClient, caller,
                                                         headerOrCheckpoint)
       IN res.reason = "ok" /\ validatorsClient' = res.st
  /\ UNCHANGED <<rmVars, v3Vars, gwVars, lcVars, coVars, aggVars, checkpointClient, srcVars, msVars>>

AddValidator ==
  /\ \E caller \in Submitters, v \in ValidatorCandidates :
       LET res == addValidator(validatorsClient, caller, v)
       IN res.reason = "ok" /\ validatorsClient' = res.st
  /\ UNCHANGED <<rmVars, v3Vars, gwVars, lcVars, coVars, aggVars, checkpointClient, srcVars, msVars>>

RemoveValidator ==
  /\ \E caller \in Submitters, v \in ValidatorCandidates :
       LET res == removeValidator(validatorsClient, caller, v)
       IN res.reason = "ok" /\ validatorsClient' = res.st
  /\ UNCHANGED <<rmVars, v3Vars, gwVars, lcVars, coVars, aggVars, checkpointClient, srcVars, msVars>>

InitClients ==
  /\ checkpointClient = [accepted |-> {}, latestRoot |-> ZeroHash]
  /\ validatorsClient = [isValidator |-> {}, accepted |-> {}, latestRoot |-> ZeroHash]

\* ---------------------------------------------------------------- Gateway
RECURSIVE SignaturesLoop(_, _, _, _, _)
SignaturesLoop(relayers, hash, sigs, i, signers) ==
  IF i > Len(sigs) THEN "ok"
  ELSE LET signer == Recover(hash, sigs[i]) IN
       IF signer \notin relayers THEN "Invalid signer"
       ELSE IF \E j \in 1..(i - 1) : signers[j] = signer THEN "Duplicate signer"
       ELSE SignaturesLoop(relayers, hash, sigs, i + 1, Append(signers, signer))

\* _verifySignatures: "ok" or the revert reason
VerifySignatures(hash, sigs) ==
  IF Len(sigs) < gateway.signatureThreshold THEN "Not enough signatures"
  ELSE SignaturesLoop(gateway.isRelayer, hash, sigs, 1, <<>>)

\* A call is [op, party, token, amount, fromChainId, headerRoot, proof, lightClient,
\*            target, payload, sigs, inner]:
\*   receiveTokens(originalSender = party, originalToken = token, amount, fromChainId, sigs)
\*   receiveTokensWithProof(party, token, amount, fromChainId, headerRoot, proof, lightClient)
\*   unlockTokens(user = party, originalToken = token, amount, fromChainId, sigs)
\*   receiveMessage(target, payload, fromChainId, sigs)
\* inner is <<>> or <<c>>: the call the callee (wrapped token, original token or
\* target) makes back into the gateway before it returns.
GwHash(c) ==
  LET tr == [originalSender |-> c.party, originalToken |-> c.token,
             amount |-> c.amount, fromChainId |-> c.fromChainId] IN
  CASE c.op = "receiveTokens" -> receiveHash(tr)
    [] c.op = "receiveTokensWithProof" -> receiveProofHash(tr, c.headerRoot)
    [] c.op = "unlockTokens" -> unlockHash(tr)
    [] c.op = "receiveMessage" -> messageHash(c.target, c.payload, c.fromChainId)

GwEffect(c, callee) ==
  [digest |-> GwHash(c), op |-> c.op, target |-> callee, party |-> c.party,
   amount |-> c.amount]

wrappedTokenOf(token) ==
  IF token \in DOMAIN gateway.wrappedTokenMap THEN gateway.wrappedTokenMap[token]
  ELSE ZeroAddress

\* ILightClient(lightClient).verifyProof: a static call; a light client of the
\* caller's making answers what the caller wants
LightClientSays(lightClient, headerRoot, proof) ==
  IF lightClient = LightClient
  THEN headerRoot \in DOMAIN receiptsRootOf /\ verifyProof(receiptsRootOf, headerRoot, proof)
  ELSE TRUE

RECURSIVE GwCall(_, _)
GwReenter(st, c) == IF c.inner # <<>> THEN GwCall(st, c.inner[1]).st ELSE st

receiveTokens(st, c) ==
  IF gateway.paused THEN [st |-> st, reason |-> "Contract paused"]
  ELSE IF GwHash(c) \in st.used THEN [st |-> st, reason |-> "Signatures already used"]
  ELSE LET q == VerifySignatures(GwHash(c), c.sigs) IN
    IF q # "ok" THEN [st |-> st, reason |-> q]
    ELSE IF wrappedTokenOf(c.token) = ZeroAddress
    THEN [st |-> st, reason |-> "Wrapped token not found"]
    ELSE LET marked == [st EXCEPT !.used = @ \cup {GwHash(c)}]
             after == GwReenter(marked, c)
         IN [st |-> [after EXCEPT !.effects = AddEffect(@, GwEffect(c, wrappedTokenOf(c.token)))],
             reason |-> "ok"]

\* faulty variant: the digest is not looked up in usedSignatures
receiveTokensWithProof_NoReplayGuard(st, c) ==
  IF gateway.paused THEN [st |-> st, reason |-> "Contract paused"]
  ELSE IF ~LightClientSays(c.lightClient, c.headerRoot, c.proof)
  THEN [st |-> st, reason |-> "Invalid proof"]
  ELSE IF wrappedTokenOf(c.token) = ZeroAddress
  THEN [st |-> st, reason |-> "Wrapped token not found"]
  ELSE LET marked == [st EXCEPT !.used = @ \cup {GwHash(c)}]
           after == GwReenter(marked, c)
       IN [st |-> [after EXCEPT !.effects = AddEffect(@, GwEffect(c, wrappedTokenOf(c.token)))],
           reason |-> "ok"]

receiveTokensWithProof(st, c) ==
  IF gateway.paused THEN [st |-> st, reason |-> "Contract paused"]
  ELSE IF GwHash(c) \in st.used THEN [st |-> st, reason |-> "Proof already used"]
  ELSE IF ~LightClientSays(c.lightClient, c.headerRoot, c.proof)
  THEN [st |-> st, reason |-> "Invalid proof"]
  ELSE IF wrappedTokenOf(c.token) = ZeroAddress
  THEN [st |-> st, reason |-> "Wrapped token not found"]
  ELSE LET marked == [st EXCEPT !.used = @ \cup {GwHash(c)}]
           after == GwReenter(marked, c)
       IN [st |-> [after EXCEPT !.effects = AddEffect(@, GwEffect(c, wrappedTokenOf(c.token)))],
           reason |-> "ok"]

unlockTokens(st, c) ==
  IF gateway.paused THEN [st |-> st, reason |-> "Contract paused"]
  ELSE IF GwHash(c) \in st.used THEN [st |-> st, reason |-> "Signatures already used"]
  ELSE LET q == VerifySignatures(GwHash(c), c.sigs) IN
    IF q # "ok" THEN [st |-> st, reason |-> q]
    ELSE IF c.token \notin gateway.supportedTokens
    THEN [st |-> st, reason |-> "Token not supported"]
    ELSE LET marked == [st EXCEPT !.used = @ \cup {GwHash(c)}]
             after == GwReenter(marked, c)
         IN [st |-> [after EXCEPT !.effects = AddEffect(@, GwEffect(c, c.token))],
             reason |-> "ok"]

\* faulty variant: the hash is marked used only after the target call returns
receiveMessage_MarkAfterCall(st, c) ==
  IF gateway.paused THEN [st |-> st, reason |-> "Contract paused"]
  ELSE IF GwHash(c) \in st.used THEN [st |-> st, reason |-> "Signatures already used"]
  ELSE LET q == VerifySignatures(GwHash(c), c.sigs) IN
    IF q # "ok" THEN [st |-> st, reason |-> q]
    ELSE LET after == GwReenter(st, c)
         IN [st |-> [after EXCEPT !.used = @ \cup {GwHash(c)},
                                  !.effects = AddEffect(@, GwEffect(c, c.target))],
             reason |-> "ok"]

receiveMessage(st, c) ==
  IF gateway.paused THEN [st |-> st, reason |-> "Contract paused"]
  ELSE IF GwHash(c) \in st.used THEN [st |-> st, reason |-> "Signatures already used"]
  ELSE LET q == VerifySignatures(GwHash(c), c.sigs) IN
    IF q # "ok" THEN [st |-> st, reason |-> q]
    ELSE LET marked == [st EXCEPT !.used = @ \cup {GwHash(c)}]
             after == GwReenter(marked, c)
         IN [st |-> [after EXCEPT !.effects = AddEffect(@, GwEffect(c, c.target))],
             reason |-> "ok"]

GwCall(st, c) ==
  CASE c.op = "receiveTokens" -> receiveTokens(st, c)
    [] c.op = "receiveTokensWithProof" -> receiveTokensWithProof(st, c)
    [] c.op = "unlockTokens" -> unlockTokens(st, c)
    [] c.op = "receiveMessage" -> receiveMessage(st, c)

\* ------------------------------------------------- Gateway administration
\* Each operation takes the gateway's configuration g and returns [g, reason].
\* Ownable(admin): the admin of the deployment is Owner.
NotOwner(g) == [g |-> g, reason |-> "OwnableUnauthorizedAccount"]
setMultisig(g, caller, m) ==
  IF ~onlyOwner(caller) THEN NotOwner(g)
  ELSE [g |-> [g EXCEPT !.multisig = m], reason |-> "ok"]
\* faulty variant: anyone may pause
Gateway_pause_AnyCaller(g, caller) ==
  [g |-> [g EXCEPT !.paused = TRUE], reason |-> "ok"]
Gateway_pause(g, caller) ==
  IF ~(caller = Owner \/ caller = g.multisig) THEN [g |-> g, reason |-> "not authorized"]
  ELSE [g |-> [g EXCEPT !.paused = TRUE], reason |-> "ok"]
Gateway_unpause(g, caller) ==
  IF ~(caller = Owner \/ caller = g.multisig) THEN [g |-> g, reason |-> "not authorized"]
  ELSE [g |-> [g EXCEPT !.paused = FALSE], reason |-> "ok"]
addRelayer(g, caller, relayer) ==
  IF ~onlyOwner(caller) THEN NotOwner(g)
  ELSE IF relayer \in g.isRelayer THEN [g |-> g, reason |-> "Already a relayer"]
  ELSE [g |-> [g EXCEPT !.isRelayer = @ \cup {relayer}], reason |-> "ok"]
removeRelayer(g, caller, relayer) ==
  IF ~onlyOwner(caller) THEN NotOwner(g)
  ELSE IF relayer \notin g.isRelayer THEN [g |-> g, reason |-> "Not a relayer"]
  ELSE [g |-> [g EXCEPT !.isRelayer = @ \ {relayer}], reason |-> "ok"]
setSignatureThreshold(g, caller, newThreshold) ==
  IF ~onlyOwner(caller) THEN NotOwner(g)
  ELSE [g |-> [g EXCEPT !.signatureThreshold = newThreshold], reason |-> "ok"]

\* the sending operations of Gateway; a performed operation is recorded as an
\* effect under the zero digest (the token contracts revert on failure)
SendEffect(op, caller, token, amount) ==
  [digest |-> ZeroHash, op |-> op, target |-> token, party |-> caller, amount |-> amount]
sendTokens(st, caller, token, amount, toChainId) ==
  IF gateway.paused THEN [st |-> st, reason |-> "Contract paused"]
  ELSE IF token \notin gateway.supportedTokens
  THEN [st |-> st, reason |-> "Token not supported"]
  ELSE IF toChainId \notin gateway.gateways THEN [st |-> st, reason |-> "Gateway not set"]
  ELSE [st |-> [st EXCEPT !.effects = AddEffect(@, SendEffect("sendTokens", caller, token,
                                                               amount))],
        reason |-> "ok"]
Gateway_sendMessage(st, caller, payload, toChainId) ==
  IF gateway.paused THEN [st |-> st, reason |-> "Contract paused"]
  ELSE IF toChainId \notin gateway.gateways THEN [st |-> st, reason |-> "Gateway not set"]
  ELSE [st |-> [st EXCEPT !.effects = AddEffect(@, SendEffect("sendMessage", caller,
                                                               ZeroAddress, 0))],
        reason |-> "ok"]
releaseTokens(st, caller, originalToken, amount, toChainId) ==
  IF gateway.paused THEN [st |-> st, reason |-> "Contract paused"]
  ELSE IF toChainId \notin gateway.gateways
  THEN [st |-> st, reason |-> "Gateway not set for destination"]
  ELSE IF wrappedTokenOf(originalToken) = ZeroAddress
  THEN [st |-> st, reason |-> "Wrapped token not found for original token"]
  ELSE [st |-> [st EXCEPT !.effects = AddEffect(@, SendEffect("releaseTokens", caller,
                                                   wrappedTokenOf(originalToken), amount))],
        reason |-> "ok"]

\* ------------------------------------------------------- Gateway inputs
NoProof == Proof(<<>>, <<>>, <<>>)
GwCallOf(op, tr, headerRoot, proof, lightClient, target, payload, sigs) ==
  [op |-> op, party |-> tr.originalSender, token |-> tr.originalToken,
   amount |-> tr.amount, fromChainId |-> tr.fromChainId, headerRoot |-> headerRoot,
   proof |-> proof, lightClient |-> lightClient, target |-> target,
   payload |-> payload, sigs |-> sigs, inner |-> <<>>]
\* receiveMessage carries no transfer: its party, token and amount are unused
NoTransfer ==
  [originalSender |-> ZeroAddress, originalToken |-> ZeroAddress, amount |-> 0,
   fromChainId |-> Chains.src]

GwTransfers == {TransferOf(1)}
\* the proofs the test helpers build for every leaf of every checkpointed tree,
\* a proof with no siblings for every receipt, and the proof with no bitmask
HonestProofs ==
  UNION {{Proof(ReceiptOf(i), TreeOf(l).proofs[i], TreeOf(l).paths[i]) : i \in 1..Len(l)} :
           l \in {[i \in 1..n |-> LeafOf(i)] : n \in 1..MaxLeaves}}
SubmittedProofs ==
  HonestProofs \cup {Proof(r, <<>>, <<0>>) : r \in Receipts}
               \cup {Proof(ReceiptOf(1), <<>>, <<>>)}

ReceiveCalls ==
  UNION {{GwCallOf("receiveTokens", tr, ZeroHash, NoProof, ZeroAddress, ZeroAddress,
                   <<>>, sigs) : sigs \in SigLists(receiveHash(tr))} : tr \in GwTransfers}
ProofCalls ==
  {GwCallOf("receiveTokensWithProof", tr, h, p, lc, ZeroAddress, <<>>, <<>>) :
     tr \in GwTransfers, h \in HeaderIds, p \in SubmittedProofs, lc \in {LightClient, Evil}}
UnlockCalls ==
  UNION {{GwCallOf("unlockTokens", tr, ZeroHash, NoProof, ZeroAddress, ZeroAddress,
                   <<>>, sigs) : sigs \in SigLists(unlockHash(tr))} : tr \in GwTransfers}
MessageCalls ==
  {GwCallOf("receiveMessage", NoTransfer, ZeroHash, NoProof, ZeroAddress, Receiver,
            IncrementData, sigs) :
     sigs \in SigLists(messageHash(Receiver, IncrementData, Chains.src))}
GwCalls == ReceiveCalls \cup ProofCalls \cup UnlockCalls \cup MessageCalls

\* the callee calls back with the call it was reached through, nested to depth
RECURSIVE GwReentries(_, _)
GwReentries(c, depth) ==
  IF depth = 0 THEN {<<>>}
  ELSE {<<>>} \cup {<<[c EXCEPT !.inner = i]>> : i \in GwReentries(c, depth - 1)}

GwState == [used |-> usedSignatures, effects |-> gwEffects]
GwResult(c) == GwCall(GwState, c)
GwTransact(c) ==
  /\ GwResult(c).reason = "ok"
  /\ \E i \in GwReentries(c, MaxDepth) :
       LET res == GwResult([c EXCEPT !.inner = i])
       IN /\ usedSignatures' = res.st.used
          /\ gwEffects' = res.st.effects

ReceiveTokens ==
  /\ \E c \in ReceiveCalls : GwTransact(c)
  /\ UNCHANGED <<gateway, rmVars, v3Vars, lcVars, coVars, aggVars, clVars, srcVars, msVars>>

ReceiveTokensWithProof ==
  /\ \E c \in ProofCalls : GwTransact(c)
  /\ UNCHANGED <<gateway, rmVars, v3Vars, lcVars, coVars, aggVars, clVars, srcVars, msVars>>

\* a batch of transfers, one per amount, each submitted with the proof the test
\* helper built for its receipt in some tree
BatchCalls ==
  UNION {{GwCallOf("receiveTokensWithProof", TransferOf(i), h,
                   Proof(ReceiptOf(i), TreeOf(l).proofs[i], TreeOf(l).paths[i]),
                   LightClient, ZeroAddress, <<>>, <<>>) :
            i \in 1..Len(l), h \in HeaderIds} :
           l \in {[i \in 1..n |-> LeafOf(i)] : n \in 1..MaxLeaves}}
ReceiveBatch ==
  /\ \E c \in BatchCalls : GwTransact(c)
  /\ UNCHANGED <<gateway, rmVars, v3Vars, lcVars, coVars, aggVars, clVars, srcVars, msVars>>

\* a transfer nobody locked on the source chain, claimed with the proofs the
\* test helpers built for the receipts of the real transfers
ForgedTransfer ==
  [originalSender |-> Mallory, originalToken |-> Tok, amount |-> MaxLeaves + 1,
   fromChainId |-> Chains.src]
ForgedCalls ==
  {GwCallOf("receiveTokensWithProof", ForgedTransfer, h, p, LightClient, ZeroAddress,
            <<>>, <<>>) : h \in HeaderIds, p \in HonestProofs}
ReceiveForged ==
  /\ \E c \in ForgedCalls : GwTransact(c)
  /\ UNCHANGED <<gateway, rmVars, v3Vars, lcVars, coVars, aggVars, clVars, srcVars, msVars>>

UnlockTokens ==
  /\ \E c \in UnlockCalls : GwTransact(c)
  /\ UNCHANGED <<gateway, rmVars, v3Vars, lcVars, coVars, aggVars, clVars, srcVars, msVars>>

ReceiveMessage ==
  /\ \E c \in MessageCalls : GwTransact(c)
  /\ UNCHANGED <<gateway, rmVars, v3Vars, lcVars, coVars, aggVars, clVars, srcVars, msVars>>

\* the administration of the gateway, called by its admin or by a stranger
AdminCallers == {Owner, Mallory}
GatewayInstall(res) ==
  /\ res.reason = "ok"
  /\ gateway' = res.g
  /\ UNCHANGED <<usedSignatures, gwEffects, rmVars, v3Vars, lcVars, coVars, aggVars,
                 clVars, srcVars, msVars>>
AddRelayer ==
  \E caller \in AdminCallers, r \in RelayerAddrs :
    GatewayInstall(addRelayer(gateway, caller, r))
RemoveRelayerOfGateway ==
  \E caller \in AdminCallers, r \in RelayerAddrs :
    GatewayInstall(removeRelayer(gateway, caller, r))
SetSignatureThreshold ==
  \E caller \in AdminCallers, n \in 0..(MaxRelayers + 1) :
    GatewayInstall(setSignatureThreshold(gateway, caller, n))

\* the multisig contract the admin can name, and the callers of pause / unpause
MultisigAddr == MaxRelayers + 11
GatewayAddr == MaxRelayers + 12
SetMultisig ==
  \E caller \in AdminCallers, m \in {ZeroAddress, MultisigAddr} :
    GatewayInstall(setMultisig(gateway, caller, m))
GatewayPauseCallers == {Owner, MultisigAddr, Mallory}
GatewayPause ==
  \E caller \in GatewayPauseCallers : GatewayInstall(Gateway_pause(gateway, caller))
GatewayUnpause ==
  \E caller \in GatewayPauseCallers : GatewayInstall(Gateway_unpause(gateway, caller))

\* the sending calls: [op, caller, token, amount, toChainId, payload]
GwSendCalls ==
  [op : {"sendTokens", "sendMessage", "releaseTokens"}, caller : {Alice},
   token : {Tok, Evil}, amount : {1}, toChainId : DestChains, payload : {IncrementData}]
GwSendResult(c) ==
  CASE c.op = "sendTokens" -> sendTokens(GwState, c.caller, c.token, c.amount, c.toChainId)
    [] c.op = "sendMessage" -> Gateway_sendMessage(GwState, c.caller, c.payload, c.toChainId)
    [] c.op = "releaseTokens" ->
         releaseTokens(GwState, c.caller, c.token, c.amount, c.toChainId)
GatewaySend ==
  /\ Cardinality(EffectsOf(gwEffects, ZeroHash)) < MaxNonce
  /\ \E c \in GwSendCalls :
       /\ GwSendResult(c).reason = "ok"
       /\ gwEffects' = GwSendResult(c).st.effects
       /\ usedSignatures' = GwSendResult(c).st.used
  /\ UNCHANGED <<gateway, rmVars, v3Vars, lcVars, coVars, aggVars, clVars, srcVars, msVars>>

\* ========================================================= SimpleMultiSig
\* ---------------------------------------------------------------- bounds
MaxTx == 2

\* wallet is [owners, required, transactions, confirmations]: transactions a
\* list of [to, data, executed, confirmations], confirmations the pairs
\* <<txId, owner>> with confirmations[txId][owner] true.  txId counts from 0.
\* Each operation returns [w, g, reason]: the wallet and the gateway after it.
WalletOwners == {Alice, Bob}
WalletRefuses(w, g, reason) == [w |-> w, g |-> g, reason |-> reason]
submitTransaction(w, g, caller, to, data) ==
  IF caller \notin w.owners THEN WalletRefuses(w, g, "not owner")
  ELSE [w |-> [w EXCEPT !.transactions =
                           Append(@, [to |-> to, data |-> data, executed |-> FALSE,
                                      confirmations |-> 0])],
        g |-> g, reason |-> "ok"]
\* faulty variant: a repeated confirmation is counted again
confirmTransaction_CountsAgain(w, g, caller, txId) ==
  IF caller \notin w.owners THEN WalletRefuses(w, g, "not owner")
  ELSE IF ~(txId < Len(w.transactions)) THEN WalletRefuses(w, g, "tx not found")
  ELSE [w |-> [w EXCEPT !.confirmations = @ \cup {<<txId, caller>>},
                        !.transactions[txId + 1].confirmations = @ + 1],
        g |-> g, reason |-> "ok"]
confirmTransaction(w, g, caller, txId) ==
  IF caller \notin w.owners THEN WalletRefuses(w, g, "not owner")
  ELSE IF ~(txId < Len(w.transactions)) THEN WalletRefuses(w, g, "tx not found")
  ELSE IF <<txId, caller>> \in w.confirmations
  THEN WalletRefuses(w, g, "already confirmed")
  ELSE [w |-> [w EXCEPT !.confirmations = @ \cup {<<txId, caller>>},
                        !.transactions[txId + 1].confirmations = @ + 1],
        g |-> g, reason |-> "ok"]
\* t.to.call(t.data) with the wallet as msg.sender; the transactions of the
\* model call pause() or unpause() of Gateway
walletCall(g, to, data) ==
  IF to # GatewayAddr THEN [g |-> g, reason |-> "ok"]
  ELSE IF data = "pause()" THEN Gateway_pause(g, MultisigAddr)
  ELSE Gateway_unpause(g, MultisigAddr)
executeTransaction(w, g, caller, txId) ==
  IF caller \notin w.owners THEN WalletRefuses(w, g, "not owner")
  ELSE IF ~(txId < Len(w.transactions)) THEN WalletRefuses(w, g, "Panic(0x32)")
  ELSE LET t == w.transactions[txId + 1] IN
    IF t.executed THEN WalletRefuses(w, g, "already executed")
    ELSE IF ~(t.confirmations >= w.required)
    THEN WalletRefuses(w, g, "not enough confirmations")
    ELSE LET called == walletCall(g, t.to, t.data) IN
         IF called.reason # "ok" THEN WalletRefuses(w, g, "tx failed")
         ELSE [w |-> [w EXCEPT !.transactions[txId + 1].executed = TRUE],
               g |-> called.g, reason |-> "ok"]

WalletCallers == WalletOwners \cup {Mallory}
TxIds == 0..(MaxTx - 1)
WalletInstall(res) ==
  /\ res.reason = "ok"
  /\ wallet' = res.w
  /\ gateway' = res.g
  /\ UNCHANGED <<usedSignatures, gwEffects, rmVars, v3Vars, lcVars, coVars, aggVars,
                 clVars, srcVars>>
SubmitTransaction ==
  /\ Len(wallet.transactions) < MaxTx
  /\ \E caller \in WalletCallers, data \in {"pause()", "unpause()"} :
       WalletInstall(submitTransaction(wallet, gateway, caller, GatewayAddr, data))
ConfirmTransaction ==
  \E caller \in WalletCallers, txId \in TxIds :
    WalletInstall(confirmTransaction(wallet, gateway, caller, txId))
ExecuteTransaction ==
  \E caller \in WalletCallers, txId \in TxIds :
    WalletInstall(executeTransaction(wallet, gateway, caller, txId))
InitWallet ==
  wallet = [owners |-> WalletOwners, required |-> 2, transactions |-> <<>>,
            confirmations |-> {}]

\* ------------------------------------------------ the PoC relayer (index.js)
\* the blocks a watched event can be mined in
BlockNumbers == 1..MaxBlock
\* TokensSent(user, token, amount, toChainId) and MessageSent(sender, toChainId,
\* payload) of the source gateway, with the block they were mined in
TokensSentEvents ==
  [user : {Alice}, token : {Tok}, amount : {1}, toChainId : {Chains.dst},
   blockNumber : BlockNumbers]
MessageSentEvents ==
  [sender : {Alice, Receiver}, toChainId : {Chains.dst}, payload : {IncrementData},
   blockNumber : BlockNumbers]

\* messageHash of the TokensSent handler
tokensSentHash(ev) ==
  Keccak(PackedAddress(ev.user) \o PackedAddress(ev.token) \o Uint256(ev.amount)
         \o Uint256(ev.blockNumber) \o Utf8("receive"))
\* messageHash of the MessageSent handler
messageSentHash(ev) ==
  Keccak(PackedAddress(ev.sender) \o ev.payload \o Uint256(ev.blockNumber)
         \o Utf8("message"))

\* the destination call for an event of the source chain, carrying the
\* signature relayer r made in its handler
ReceiveTokensFor(ev, r) ==
  GwCallOf("receiveTokens",
           [originalSender |-> ev.user, originalToken |-> ev.token,
            amount |-> ev.amount, fromChainId |-> Chains.src],
           ZeroHash, NoProof, ZeroAddress, ZeroAddress, <<>>,
           <<Sig(r, tokensSentHash(ev))>>)
\* the message is executed on the target the payload is meant for
ReceiveMessageFor(ev, target, r) ==
  GwCallOf("receiveMessage", NoTransfer, ZeroHash, NoProof, ZeroAddress, target,
           ev.payload, <<Sig(r, messageSentHash(ev))>>)
PocCalls ==
  {ReceiveTokensFor(ev, r) : ev \in TokensSentEvents, r \in RelayerAddrs}
    \cup {ReceiveMessageFor(ev, Receiver, r) : ev \in MessageSentEvents, r \in RelayerAddrs}

\* the aggregator submits what the relayer signed
PocSubmit ==
  /\ \E c \in PocCalls : GwTransact(c)
  /\ UNCHANGED <<gateway, rmVars, v3Vars, lcVars, coVars, aggVars, clVars, srcVars, msVars>>

\* ====================================================== relay coordinator
\* ---------------------------------------------------------------- bounds
MaxTime == 2
MaxAttempts == 2

\* x || d of JavaScript on numbers: an absent (zero) value gives the default
OrDefault(x, d) == IF x = 0 THEN d ELSE x

\* multi-chain.config.json: one relayer process per staked relayer, the quorum
\* of the registry, a lease of one second
Config ==
  [signatureThreshold |-> signatureThreshold([i \in 1..MaxRelayers |-> i]),
   leaderTtlSeconds |-> 1,
   submitMaxAttempts |-> MaxAttempts,
   evm |-> [src |-> [chainId |-> Chains.src, wrappedTokenMap |-> [x \in {Tok} |-> Wrapped],
                     defaultWrappedToken |-> 0],
            dst |-> [chainId |-> Chains.dst, wrappedTokenMap |-> [x \in {Tok} |-> Wrapped],
                     defaultWrappedToken |-> 0]]]

Procs == RelayerAddrs
LEADER_TTL == OrDefault(Config.leaderTtlSeconds, 10) * 1000
\* Date.now(), in milliseconds; the clock `now` counts seconds
DateNow == now * 1000

\* a file of the pending directory is <<>> (absent) or <<content>>
NoFile == <<>>

\* Object.entries(config.evm).find(chainId === toChainId)?.[0]
DstNameOf(toChainId) ==
  IF \E n \in DOMAIN Config.evm : Config.evm[n].chainId = toChainId
  THEN CHOOSE n \in DOMAIN Config.evm : Config.evm[n].chainId = toChainId
  ELSE ""

\* the events of the source gateway the relayers watch
TokensLocked ==
  [kind |-> "token", nonce |-> 1, chain |-> Chains.src, toChainId |-> Chains.dst,
   sender |-> Alice, token |-> Tok, recipient |-> Bob, amount |-> 1,
   target |-> ZeroAddress, data |-> <<>>, value |-> 0]
MessageSent ==
  [kind |-> "message", nonce |-> 1, chain |-> Chains.src, toChainId |-> Chains.dst,
   sender |-> Alice, token |-> ZeroAddress, recipient |-> ZeroAddress, amount |-> 0,
   target |-> Receiver, data |-> IncrementData, value |-> 0]
SourceEvents == {TokensLocked, MessageSent}

\* msgHash of the two event handlers; actualFromChainId is the chain id the
\* provider of the watched chain reports
EventDigest(ev) ==
  IF ev.kind = "token"
  THEN hashToken(ev.nonce, ev.chain, ev.toChainId, ev.sender, ev.token, ev.recipient,
                 ev.amount)
  ELSE relayerHashMessage(ev.chain, ev.toChainId, ev.sender, ev.target, ev.data, ev.value)
\* the meta record the handlers store with the signature
MetaOf(ev) ==
  [kind |-> ev.kind, toChainId |-> ev.toChainId, fromChainId |-> ev.chain,
   fromAddress |-> ev.sender, recipient |-> ev.recipient, amount |-> ev.amount,
   token |-> ev.token, target |-> ev.target, data |-> ev.data, value |-> ev.value]
CoDigests == {EventDigest(ev) : ev \in SourceEvents}
EventOf(d) == CHOOSE ev \in SourceEvents : EventDigest(ev) = d

\* Set.add / includes-then-push on an insertion-ordered list
AddOnce(list, x) == IF \E i \in 1..Len(list) : list[i] = x THEN list ELSE Append(list, x)
RECURSIVE Dedup(_)
Dedup(list) ==
  IF list = <<>> THEN <<>>
  ELSE AddOnce(Dedup(SubSeq(list, 1, Len(list) - 1)), list[Len(list)])

\* storeSig, the in-memory half: pending[hash] after the call
storeSigMemory(mem, sig, meta) ==
  LET entry == IF mem = <<>> THEN [sigs |-> <<>>, meta |-> meta] ELSE mem[1]
  IN <<[entry EXCEPT !.sigs = AddOnce(@, sig)]>>
\* storeSig, the disk half: what it reads, and what it writes from what it read
storeSigRead(file, meta) == IF file # NoFile THEN file[1] ELSE [sigs |-> <<>>, meta |-> meta]
storeSigWrite(disk, sig, meta) == <<[disk EXCEPT !.sigs = AddOnce(@, sig)]>>

\* trySubmit, lines 278-290: the entry read from disk, else the one in memory
readEntry(file, mem) ==
  IF file # NoFile THEN <<[sigs |-> Dedup(file[1].sigs), meta |-> file[1].meta]>> ELSE mem
\* lines 292-293
required == OrDefault(Config.signatureThreshold, 2)
belowThreshold(entry) == Len(entry.sigs) < required

\* tryElectLeader, lines 127-133: is there a lease that is still valid
leaseValid(file, t) == file # NoFile /\ file[1].expires > t
\* lines 138-140 and refreshLeader
leaseOf(myAddr, t) == <<[leader |-> myAddr, expires |-> t + LEADER_TTL]>>

\* faulty variant: the lock file is opened for writing whether it exists or not
tryAcquireLock_Overwrite(files, hash, owner, t) ==
  [ok |-> TRUE, files |-> [files EXCEPT ![hash] = <<[owner |-> owner, ts |-> t]>>]]

\* tryAcquireLock: exclusive creation of the lock file
tryAcquireLock(files, hash, owner, t) ==
  IF files[hash] = NoFile
  THEN [ok |-> TRUE, files |-> [files EXCEPT ![hash] = <<[owner |-> owner, ts |-> t]>>]]
  ELSE [ok |-> FALSE, files |-> files]
releaseLock(files, hash) == [files EXCEPT ![hash] = NoFile]

\* the retry loop of trySubmit
maxAttempts == OrDefault(Config.submitMaxAttempts, 4)
\* faulty variant: the loop test lets one more attempt through
loopContinues_OneMore(h) == h.attempt <= maxAttempts /\ ~h.success
loopContinues(h) == h.attempt < maxAttempts /\ ~h.success
backoff(attempt) == 200 * 2 ^ (attempt - 1)

\* the call trySubmit assembles from the entry it read
wrappedFor(dstName, token) ==
  LET net == Config.evm[dstName] IN
  IF token \in DOMAIN net.wrappedTokenMap
  THEN OrDefault(net.wrappedTokenMap[token], net.defaultWrappedToken)
  ELSE net.defaultWrappedToken
submitCall(hash, meta, sigs) ==
  IF meta.kind = "token"
  THEN [op |-> "mintWrapped", target |-> wrappedFor(DstNameOf(meta.toChainId), meta.token),
        party |-> meta.recipient, amount |-> meta.amount, fromChainId |-> 0,
        data |-> <<>>, digest |-> hash, sigs |-> sigs, inner |-> <<>>]
  ELSE [op |-> "executeMessage", target |-> meta.target,
        party |-> OrDefault(meta.fromAddress, ZeroAddress), amount |-> meta.value,
        fromChainId |-> OrDefault(meta.fromChainId, meta.toChainId),
        data |-> meta.data, digest |-> hash, sigs |-> sigs, inner |-> <<>>]

\* ------------------------------------------------ the handlers, step by step
\* One handler runs per process and observed event.  Its steps are the points
\* where another process can act in between: each access to a shared file, and
\* the transaction sent to the destination chain.
HandlerInit ==
  [pc |-> "idle", disk |-> <<>>, entry |-> <<>>, attempt |-> 0, iAmLeader |-> FALSE,
   acquired |-> FALSE, success |-> FALSE, slept |-> <<>>]

Running(p, d, pc) == p \notin dead /\ handler[p][d].pc = pc
\* the handler has returned: its locals are gone
Returned == [HandlerInit EXCEPT !.pc = "done"]
Goto(p, d, h) == handler' = [handler EXCEPT ![p][d] = h]
\* what the file steps of a handler leave alone: the chains and the aggregator
chainVars == <<rmVars, v3Vars, gwVars, lcVars, aggVars, clVars, srcVars, msVars>>

\* the event arrives: digest, signature, storeSig up to its read of the file
Observe(p, d) ==
  LET meta == MetaOf(EventOf(d)) IN
  /\ Running(p, d, "idle")
  /\ pending' = [pending EXCEPT ![p][d] = storeSigMemory(@, Sig(p, d), meta)]
  /\ Goto(p, d, [handler[p][d] EXCEPT !.pc = "store",
                                      !.disk = <<storeSigRead(pendingFiles[d], meta)>>])
  /\ UNCHANGED <<now, leaderFiles, lockFiles, pendingFiles, dead, sent, chainVars>>

\* storeSig writes the file back
StoreSig(p, d) ==
  /\ Running(p, d, "store")
  /\ pendingFiles' = [pendingFiles EXCEPT
                        ![d] = storeSigWrite(handler[p][d].disk[1], Sig(p, d),
                                             MetaOf(EventOf(d)))]
  /\ Goto(p, d, [handler[p][d] EXCEPT !.pc = "try", !.disk = <<>>])
  /\ UNCHANGED <<now, leaderFiles, lockFiles, pending, dead, sent, chainVars>>

\* trySubmit up to the threshold test and the lookup of the destination
ReadPool(p, d) ==
  LET entry == readEntry(pendingFiles[d], pending[p][d])
      go == /\ entry # <<>>
            /\ ~belowThreshold(entry[1])
            /\ DstNameOf(entry[1].meta.toChainId) # ""
  IN /\ Running(p, d, "try")
     /\ pending' = [pending EXCEPT ![p][d] = entry]
     /\ Goto(p, d, IF go THEN [handler[p][d] EXCEPT !.pc = "elect", !.entry = entry]
                    ELSE Returned)
     /\ UNCHANGED <<now, leaderFiles, lockFiles, pendingFiles, dead, sent, chainVars>>

DstOf(p, d) == DstNameOf(handler[p][d].entry[1].meta.toChainId)

\* faulty variant: a process that is told it is not the leader goes on
ElectCheck_NotLeaderGoesOn(p, d) ==
  LET file == leaderFiles[DstOf(p, d)] IN
  /\ Running(p, d, "elect")
  /\ Goto(p, d,
          IF leaseValid(file, DateNow)
          THEN [handler[p][d] EXCEPT !.pc = "lock", !.iAmLeader = (file[1].leader = p)]
          ELSE [handler[p][d] EXCEPT !.pc = "electWrite"])
  /\ UNCHANGED <<now, leaderFiles, lockFiles, pendingFiles, pending, dead, sent, chainVars>>

\* tryElectLeader, the check: a valid lease answers at once
ElectCheck(p, d) ==
  LET file == leaderFiles[DstOf(p, d)] IN
  /\ Running(p, d, "elect")
  /\ Goto(p, d,
          IF leaseValid(file, DateNow)
          THEN IF file[1].leader = p
               THEN [handler[p][d] EXCEPT !.pc = "lock", !.iAmLeader = TRUE]
               ELSE Returned
          ELSE [handler[p][d] EXCEPT !.pc = "electWrite"])
  /\ UNCHANGED <<now, leaderFiles, lockFiles, pendingFiles, pending, dead, sent, chainVars>>

\* tryElectLeader, the write
ElectWrite(p, d) ==
  /\ Running(p, d, "electWrite")
  /\ leaderFiles' = [leaderFiles EXCEPT ![DstOf(p, d)] = leaseOf(p, DateNow)]
  /\ Goto(p, d, [handler[p][d] EXCEPT !.pc = "lock", !.iAmLeader = TRUE])
  /\ UNCHANGED <<now, lockFiles, pendingFiles, pending, dead, sent, chainVars>>

AcquireLock(p, d) ==
  LET got == tryAcquireLock(lockFiles, d, p, DateNow) IN
  /\ Running(p, d, "lock")
  /\ lockFiles' = got.files
  /\ Goto(p, d, IF got.ok THEN [handler[p][d] EXCEPT !.pc = "submit", !.acquired = TRUE]
                 ELSE Returned)
  /\ UNCHANGED <<now, leaderFiles, pendingFiles, pending, dead, sent, chainVars>>

\* one turn of the loop up to the transaction: attempt += 1, refreshLeader
Attempt(p, d) ==
  /\ Running(p, d, "submit")
  /\ loopContinues(handler[p][d])
  /\ leaderFiles' = [leaderFiles EXCEPT ![DstOf(p, d)] = leaseOf(p, DateNow)]
  /\ Goto(p, d, [handler[p][d] EXCEPT !.pc = "send", !.attempt = @ + 1])
  /\ UNCHANGED <<now, lockFiles, pendingFiles, pending, dead, sent, chainVars>>

\* the loop is left without success: the lock is released
GiveUp(p, d) ==
  /\ Running(p, d, "submit")
  /\ ~loopContinues(handler[p][d])
  /\ lockFiles' = releaseLock(lockFiles, d)
  /\ Goto(p, d, Returned)
  /\ UNCHANGED <<now, leaderFiles, pendingFiles, pending, dead, sent, chainVars>>

\* The transaction.  "lost": the RPC call fails and nothing reaches the chain;
\* "sent": the node takes the transaction and answers with its hash (the
\* relayer does not wait for the receipt, so it learns nothing of a revert);
\* "sentErr": the transaction reaches the chain but the call throws (the answer
\* is lost, or the node reports the revert).
SendOutcomes == {"lost", "sent", "sentErr"}
SendWith(p, d, outcomes) ==
  LET h == handler[p][d]
      call == submitCall(d, h.entry[1].meta, h.entry[1].sigs)
      res == V3Result(call)
  IN /\ Running(p, d, "send")
     /\ \E outcome \in outcomes :
          /\ IF outcome = "lost"
             THEN UNCHANGED <<usedProofs, effects>>
             ELSE usedProofs' = res.st.used /\ effects' = res.st.effects
          /\ IF outcome = "sent"
             THEN /\ pending' = [pending EXCEPT ![p][d] = <<>>]
                  /\ Goto(p, d, [h EXCEPT !.pc = "cleanup", !.success = TRUE])
             ELSE /\ UNCHANGED pending
                  /\ Goto(p, d, [h EXCEPT !.pc = "submit",
                                          !.slept = Append(@, backoff(h.attempt))])
     /\ sent' = sent \cup {d}
     /\ UNCHANGED <<now, leaderFiles, lockFiles, pendingFiles, dead,
                    rmVars, paused, gwVars, lcVars, aggVars, clVars, srcVars, msVars>>

\* after success: the pending file is unlinked and the lock released
Cleanup(p, d) ==
  /\ Running(p, d, "cleanup")
  /\ pendingFiles' = [pendingFiles EXCEPT ![d] = NoFile]
  /\ lockFiles' = releaseLock(lockFiles, d)
  /\ Goto(p, d, Returned)
  /\ UNCHANGED <<now, leaderFiles, pending, dead, sent, chainVars>>

\* a relayer process is killed while it holds a lock or the lease (killed
\* anywhere else it leaves nothing behind)
Holds(p) ==
  \/ \E d \in CoDigests : lockFiles[d] # NoFile /\ lockFiles[d][1].owner = p
  \/ \E n \in DOMAIN leaderFiles : leaderFiles[n] # NoFile /\ leaderFiles[n][1].leader = p
Kill(p) ==
  /\ dead = {}
  /\ \E d \in CoDigests : handler[p][d].pc \notin {"off", "idle", "done"}
  /\ Holds(p)
  /\ dead' = {p}
  /\ UNCHANGED <<now, leaderFiles, lockFiles, pendingFiles, pending, handler, sent,
                 chainVars>>

\* A second passes.  The clock stops at MaxTime; from then on a second that
\* passes makes every time written in a record one second older instead.
Older(t) == IF t >= 1000 THEN t - 1000 ELSE 0
Tick ==
  /\ \/ /\ now < MaxTime
        /\ now' = now + 1
        /\ UNCHANGED <<leaderFiles, lockFiles>>
     \/ /\ now = MaxTime
        /\ UNCHANGED now
        /\ leaderFiles' = [n \in DOMAIN leaderFiles |->
                             IF leaderFiles[n] = NoFile THEN NoFile
                             ELSE <<[leaderFiles[n][1] EXCEPT !.expires = Older(@)]>>]
        /\ lockFiles' = [d \in DOMAIN lockFiles |->
                           IF lockFiles[d] = NoFile THEN NoFile
                           ELSE <<[lockFiles[d][1] EXCEPT !.ts = Older(@)]>>]
  /\ UNCHANGED <<pendingFiles, pending, handler, dead, sent, chainVars>>

\* the source gateway emits the next event once the relayers have settled the
\* one before
Emit ==
  /\ \A p \in Procs, d \in CoDigests : handler[p][d].pc \in {"off", "done"}
  /\ \E d \in CoDigests :
       /\ \A p \in Procs : handler[p][d].pc = "off"
       /\ handler' = [p \in Procs |-> [handler[p] EXCEPT ![d] = HandlerInit]]
  /\ UNCHANGED <<now, leaderFiles, lockFiles, pendingFiles, pending, dead, sent, chainVars>>

ObserveAny == \E p \in Procs, d \in CoDigests : Observe(p, d)
StoreSigAny == \E p \in Procs, d \in CoDigests : StoreSig(p, d)
ReadPoolAny == \E p \in Procs, d \in CoDigests : ReadPool(p, d)
ElectCheckAny == \E p \in Procs, d \in CoDigests : ElectCheck(p, d)
ElectWriteAny == \E p \in Procs, d \in CoDigests : ElectWrite(p, d)
AcquireLockAny == \E p \in Procs, d \in CoDigests : AcquireLock(p, d)
AttemptAny == \E p \in Procs, d \in CoDigests : Attempt(p, d)
GiveUpAny == \E p \in Procs, d \in CoDigests : GiveUp(p, d)
SendAny == \E p \in Procs, d \in CoDigests : SendWith(p, d, SendOutcomes)
\* the destination is reachable: the node takes every transaction
SendReachable == \E p \in Procs, d \in CoDigests : SendWith(p, d, {"sent"})
CleanupAny == \E p \in Procs, d \in CoDigests : Cleanup(p, d)
KillAny == \E p \in Procs : Kill(p)

InitCoordinatorFiles ==
  /\ now = 0
  /\ leaderFiles = [n \in DOMAIN Config.evm |-> NoFile]
  /\ lockFiles = [d \in CoDigests |-> NoFile]
  /\ pendingFiles = [d \in CoDigests |-> NoFile]
  /\ pending = [p \in Procs |-> [d \in CoDigests |-> <<>>]]
  /\ dead = {}
  /\ sent = {}
\* no relayer process runs
CoordinatorOff ==
  /\ InitCoordinatorFiles
  /\ handler = [p \in Procs |-> [d \in CoDigests |-> [HandlerInit EXCEPT !.pc = "off"]]]

\* --------------------------------------------- signature pools under input
\* a signature as the bytes that arrive: v is 27/28 as ethers writes it, or 0/1,
\* which _split and _recoverSigner accept as the same signature
SigV(signer, digest, v) == [signer |-> signer, digest |-> digest, v |-> v]
PoolDigest == EventDigest(TokensLocked)
ArrivingSigs == {SigV(r, PoolDigest, v) : r \in RelayerAddrs, v \in {0, 27}}

\* storeSig as one call of the first relayer process, on any signature that arrives
StoreArriving ==
  LET p == 1
      d == PoolDigest
      meta == MetaOf(TokensLocked) IN
  /\ \E sig \in ArrivingSigs :
       /\ pending' = [pending EXCEPT ![p][d] = storeSigMemory(@, sig, meta)]
       /\ pendingFiles' = [pendingFiles EXCEPT
                             ![d] = storeSigWrite(storeSigRead(@, meta), sig, meta)]
  /\ UNCHANGED <<now, leaderFiles, lockFiles, handler, dead, sent, chainVars>>

\* ------------------------------------------------ aggregateAndSubmit.js
SIGNATURE_THRESHOLD == OrDefault(0, 2)

\* addSignature: [added, pending]
addSignature(pool, hash, signature, relayer) ==
  LET entry == IF pool[hash] = <<>> THEN [signatures |-> <<>>, signers |-> {}]
               ELSE pool[hash][1] IN
  IF relayer \in entry.signers
  THEN [added |-> FALSE, pending |-> [pool EXCEPT ![hash] = <<entry>>]]
  ELSE [added |-> TRUE,
        pending |-> [pool EXCEPT ![hash] = <<[signatures |-> Append(entry.signatures, signature),
                                             signers |-> entry.signers \cup {relayer}]>>]]

\* the messages the relayers post signatures for, and the meta posted with them
AggMetas ==
  {[type |-> "receive", tr |-> TransferOf(1), target |-> ZeroAddress, payload |-> <<>>],
   [type |-> "message", tr |-> NoTransfer, target |-> Receiver, payload |-> IncrementData]}
AggHashOf(meta) ==
  IF meta.type = "receive" THEN receiveHash(meta.tr)
  ELSE messageHash(meta.target, meta.payload, meta.tr.fromChainId)
AggHashes == {AggHashOf(meta) : meta \in AggMetas}
\* the transaction trySubmit sends
aggCall(meta, signatures) ==
  IF meta.type = "receive"
  THEN GwCallOf("receiveTokens", meta.tr, ZeroHash, NoProof, ZeroAddress, ZeroAddress,
                <<>>, signatures)
  ELSE GwCallOf("receiveMessage", meta.tr, ZeroHash, NoProof, ZeroAddress, meta.target,
                meta.payload, signatures)

\* POST /submit-signature: addSignature, then trySubmit up to the transaction
PostSignature ==
  /\ \E meta \in AggMetas, signer \in RelayerAddrs, relayer \in RelayerAddrs :
       LET hash == AggHashOf(meta)
           r == addSignature(aggPending, hash, Sig(signer, hash), relayer)
           entry == r.pending[hash][1]
           res == GwResult(aggCall(meta, entry.signatures))
       IN /\ aggPending' = r.pending
          /\ IF r.added /\ Len(entry.signatures) >= SIGNATURE_THRESHOLD
             THEN /\ usedSignatures' = res.st.used
                  /\ gwEffects' = res.st.effects
                  /\ aggInFlight' = aggInFlight \cup {hash}
             ELSE UNCHANGED <<usedSignatures, gwEffects, aggInFlight>>
  /\ UNCHANGED <<gateway, rmVars, v3Vars, lcVars, coVars, clVars, srcVars, msVars>>

\* trySubmit after the transaction was mined or has failed: the entry is deleted
Settle ==
  /\ \E hash \in aggInFlight :
       /\ aggPending' = [aggPending EXCEPT ![hash] = <<>>]
       /\ aggInFlight' = aggInFlight \ {hash}
  /\ UNCHANGED <<gateway, usedSignatures, gwEffects, rmVars, v3Vars, lcVars, coVars, clVars, srcVars, msVars>>

AggregatorOff ==
  /\ aggPending = [hash \in AggHashes |-> <<>>]
  /\ aggInFlight = {}

\* ------------------------------------------- GatewayV3, the sender side
GatewayV3Addr == MaxRelayers + 10

\* st is [nonce, registry, balances]: registry is [enabled, allowed] (the chain
\* ids with chains[id].enabled, the <<chainId, token>> with allowedTokens true),
\* balances the token balances of the holders; the result is [st, reason]
SenderState == [nonce |-> nonce, registry |-> registry, balances |-> balances]
isChainEnabled(reg, chainId) == chainId \in reg.enabled
isTokenAllowed(reg, chainId, token) == <<chainId, token>> \in reg.allowed

setChain(st, caller, chainId, enabled) ==
  IF ~onlyOwner(caller) THEN Unauthorized(st)
  ELSE [st |-> [st EXCEPT !.registry.enabled =
                            IF enabled THEN @ \cup {chainId} ELSE @ \ {chainId}],
        reason |-> "ok"]
setTokenAllowed(st, caller, chainId, token, allowed) ==
  IF ~onlyOwner(caller) THEN Unauthorized(st)
  ELSE [st |-> [st EXCEPT !.registry.allowed =
                            IF allowed THEN @ \cup {<<chainId, token>>}
                            ELSE @ \ {<<chainId, token>>}],
        reason |-> "ok"]

\* IERC20(token).transferFrom(from, to, amount) of the bridged token, which
\* reverts when the balance does not cover the amount
transferFrom(bal, from, to, amount) ==
  IF bal[from] < amount THEN [ok |-> FALSE, bal |-> bal]
  ELSE [ok |-> TRUE, bal |-> [bal EXCEPT ![from] = @ - amount, ![to] = @ + amount]]

bridgeToken(st, isPaused, caller, token, amount, toChainId, recipient) ==
  IF isPaused THEN [st |-> st, reason |-> "EnforcedPause"]
  ELSE IF ~isChainEnabled(st.registry, toChainId)
  THEN [st |-> st, reason |-> "dest chain disabled"]
  ELSE IF ~isTokenAllowed(st.registry, toChainId, token)
  THEN [st |-> st, reason |-> "token not allowed"]
  ELSE IF amount = 0 THEN [st |-> st, reason |-> "amount = 0"]
  ELSE LET moved == transferFrom(st.balances, caller, GatewayV3Addr, amount) IN
       IF ~moved.ok THEN [st |-> st, reason |-> "transfer failed"]
       ELSE [st |-> [st EXCEPT !.balances = moved.bal, !.nonce = @ + 1],
             reason |-> "ok"]

\* faulty variant: the destination chain is not looked up in the registry
sendMessage_AnyChain(st, isPaused, caller, toChainId, target, data) ==
  IF isPaused THEN [st |-> st, reason |-> "EnforcedPause"]
  ELSE [st |-> [st EXCEPT !.nonce = @ + 1], reason |-> "ok"]
sendMessage(st, isPaused, caller, toChainId, target, data) ==
  IF isPaused THEN [st |-> st, reason |-> "EnforcedPause"]
  ELSE IF ~isChainEnabled(st.registry, toChainId)
  THEN [st |-> st, reason |-> "dest chain disabled"]
  ELSE [st |-> [st EXCEPT !.nonce = @ + 1], reason |-> "ok"]

\* the calls made to the registry and to the sender side
RegistryCallers == {Owner, Mallory}
BridgeCalls ==
  [caller : {Alice}, token : {Tok, Wrapped}, amount : 0..2, toChainId : DestChains,
   recipient : {Bob}]
SendCalls ==
  [caller : {Alice}, toChainId : DestChains, target : {Receiver}, data : {IncrementData}]
BridgeResult(c) ==
  bridgeToken(SenderState, paused, c.caller, c.token, c.amount, c.toChainId, c.recipient)
SendResult(c) == sendMessage(SenderState, paused, c.caller, c.toChainId, c.target, c.data)

\* a transaction of the sender side: installs the state of an accepted call
SenderInstall(res) ==
  /\ res.reason = "ok"
  /\ nonce' = res.st.nonce
  /\ registry' = res.st.registry
  /\ balances' = res.st.balances
  /\ UNCHANGED <<rmVars, v3Vars, gwVars, lcVars, coVars, aggVars, clVars, msVars>>

SetChain ==
  \E caller \in RegistryCallers, chainId \in DestChains, enabled \in BOOLEAN :
    SenderInstall(setChain(SenderState, caller, chainId, enabled))
SetTokenAllowed ==
  \E caller \in RegistryCallers, chainId \in DestChains, allowed \in BOOLEAN :
    SenderInstall(setTokenAllowed(SenderState, caller, chainId, Tok, allowed))
BridgeToken ==
  /\ nonce < MaxNonce
  /\ \E c \in BridgeCalls : SenderInstall(BridgeResult(c))
SendMessage ==
  /\ nonce < MaxNonce
  /\ \E c \in SendCalls : SenderInstall(SendResult(c))

InitSender ==
  /\ nonce = 0
  /\ registry = [enabled |-> {}, allowed |-> {}]
  /\ balances = [a \in {Alice, GatewayV3Addr} |-> IF a = Alice THEN 2 ELSE 0]

\* ----------------------------------------------------------- specifications
\* the digest whose first byte decides whether NodeReceipt passes for a list
LeadCandidates == {LeafOf(1)}

GatewayConfig ==
  [isRelayer |-> RelayerAddrs, signatureThreshold |-> 1, paused |-> FALSE,
   multisig |-> ZeroAddress, gateways |-> {Chains.dst},
   wrappedTokenMap |-> [x \in {Tok} |-> Wrapped], supportedTokens |-> {Tok}]

InitRelayers ==
  /\ relayerSet = <<>>
  /\ isRelayer = {}
  /\ stakes = [a \in RelayerAddrs |-> 0]
\* every relayer has staked, in the order of its address
AllStaked ==
  /\ relayerSet = [i \in 1..MaxRelayers |-> i]
  /\ isRelayer = RelayerAddrs
  /\ stakes = [a \in RelayerAddrs |-> minStake]
InitV3 ==
  /\ paused = FALSE
  /\ usedProofs = {}
  /\ effects = {}
InitGateway ==
  /\ gateway = GatewayConfig
  /\ usedSignatures = {}
  /\ gwEffects = {}
InitLightClient ==
  /\ receiptsRootOf = [h \in HeaderIds |-> ZeroHash]
  /\ latestRoot = ZeroHash

Init ==
  /\ InitRelayers /\ InitV3 /\ InitGateway /\ InitLightClient
  /\ highLead = {}
  /\ CoordinatorOff /\ AggregatorOff
  /\ InitClients /\ InitWallet /\ InitSender

Next == StakeAny \/ UnstakeAny \/ MintWrapped \/ ExecuteMessage

Spec == Init /\ [][Next]_vars

\* the light client and the proof path of the gateway, under every choice of the
\* digests that start with a list tag
InitLC ==
  /\ InitRelayers /\ InitV3 /\ InitGateway /\ InitLightClient
  /\ highLead \in SUBSET LeadCandidates
  /\ CoordinatorOff /\ AggregatorOff
  /\ InitClients /\ InitWallet /\ InitSender

NextLC == SubmitHeader \/ SubmitCheckpoint \/ ReceiveTokensWithProof

SpecLC == InitLC /\ [][NextLC]_vars

\* the proof path of the gateway under callers that choose the transfer freely
NextProofs == NextLC \/ ReceiveForged
SpecProofs == InitLC /\ [][NextProofs]_vars

\* both gateways with every relayer staked and two checkpoints accepted
InitGateways ==
  /\ AllStaked
  /\ InitV3 /\ InitGateway
  /\ receiptsRootOf = [h \in HeaderIds |->
                         IF h = RootId THEN RootId
                         ELSE TreeOf(<<LeafOf(1), LeafOf(2)>>).root]
  /\ latestRoot = RootId
  /\ highLead = {}
  /\ CoordinatorOff /\ AggregatorOff
  /\ InitClients /\ InitWallet /\ InitSender

NextGateways ==
  \/ MintWrapped \/ ExecuteMessage
  \/ ReceiveTokens \/ ReceiveTokensWithProof \/ UnlockTokens \/ ReceiveMessage

SpecGateways == InitGateways /\ [][NextGateways]_vars

\* the signature gateway fed by the PoC relayer
NextPoc == NextGateways \/ PocSubmit
SpecPoc == InitGateways /\ [][NextPoc]_vars

\* the signature gateway while its admin changes relayers and threshold
NextAdmin ==
  \/ ReceiveTokens \/ UnlockTokens \/ ReceiveMessage
  \/ AddRelayer \/ RemoveRelayerOfGateway \/ SetSignatureThreshold
SpecAdmin == InitGateways /\ [][NextAdmin]_vars

\* both gateways under pause and unpause, with the destination chain registered
\* and the token allowed
InitPause ==
  /\ AllStaked
  /\ InitV3 /\ InitGateway /\ InitLightClient
  /\ highLead = {}
  /\ CoordinatorOff /\ AggregatorOff
  /\ InitClients /\ InitWallet
  /\ nonce = 0
  /\ registry = [enabled |-> {Chains.dst}, allowed |-> {<<Chains.dst, Tok>>}]
  /\ balances = [a \in {Alice, GatewayV3Addr} |-> IF a = Alice THEN 2 ELSE 0]
NextPause ==
  \/ Pause \/ Unpause \/ BridgeToken \/ SendMessage \/ ExecuteMessage
  \/ GatewayPause \/ GatewayUnpause \/ SetMultisig \/ GatewaySend
  \/ ReceiveTokens \/ UnlockTokens
SpecPause == InitPause /\ [][NextPause]_vars

\* the wallet of two owners, both required, governing the pause of Gateway
NextWallet ==
  \/ SubmitTransaction \/ ConfirmTransaction \/ ExecuteTransaction
  \/ SetMultisig \/ GatewayPause \/ GatewayUnpause \/ ReceiveTokens
SpecWallet == InitGateways /\ [][NextWallet]_vars

\* the relayer processes of every staked relayer; the source gateway has emitted
\* one of the two events
InitCoordinator ==
  /\ AllStaked
  /\ InitV3 /\ InitGateway /\ InitLightClient
  /\ highLead = {}
  /\ InitCoordinatorFiles
  /\ \E e \in CoDigests :
       handler = [p \in Procs |-> [d \in CoDigests |->
                    IF d = e THEN HandlerInit ELSE [HandlerInit EXCEPT !.pc = "off"]]]
  /\ AggregatorOff
  /\ InitClients /\ InitWallet /\ InitSender

NextRelayers ==
  \/ ObserveAny \/ StoreSigAny \/ ReadPoolAny \/ ElectCheckAny \/ ElectWriteAny
  \/ AcquireLockAny \/ AttemptAny \/ SendAny \/ CleanupAny \/ GiveUpAny \/ Tick
NextCoordinator == NextRelayers \/ KillAny \/ Pause

SpecCoordinator == InitCoordinator /\ [][NextCoordinator]_vars

\* the processes stay alive and take steps, the destination is reachable and not
\* paused, and the other event follows
NextFair ==
  \/ Emit \/ ObserveAny \/ StoreSigAny \/ ReadPoolAny \/ ElectCheckAny \/ ElectWriteAny
  \/ AcquireLockAny \/ AttemptAny \/ SendReachable \/ CleanupAny \/ Tick
SpecCoordinatorFair == InitCoordinator /\ [][NextFair]_vars /\ WF_vars(NextFair)

\* the two signature pools, fed with every signature that can arrive
InitPools ==
  /\ InitRelayers /\ InitV3 /\ InitGateway /\ InitLightClient
  /\ highLead = {}
  /\ CoordinatorOff
  /\ AggregatorOff
  /\ InitClients /\ InitWallet /\ InitSender

NextPools == StoreArriving \/ PostSignature \/ Settle

SpecPools == InitPools /\ [][NextPools]_vars

\* the relayer set under stake, unstake and slash, with the gateway that reads it
NextRelayerSet == Next \/ SlashAny
SpecRelayerSet == Init /\ [][NextRelayerSet]_vars

\* the destination gateway with messages whose target call fails
NextDelivery == Next \/ ExecuteFailing
SpecDelivery == Init /\ [][NextDelivery]_vars

\* batches of transfers proved against the checkpoints the owner submits
NextBatch == SubmitHeader \/ SubmitCheckpoint \/ ReceiveBatch
SpecBatch == Init /\ [][NextBatch]_vars

\* the three light clients, called by the owner, by validators and by others
NextClients ==
  \/ SubmitHeader \/ SubmitCheckpoint \/ CheckpointSubmit
  \/ ValidatorsSubmit \/ AddValidator \/ RemoveValidator
SpecClients == Init /\ [][NextClients]_vars

\* the sender side of GatewayV3 with the registry changing under it
NextSender ==
  \/ SetChain \/ SetTokenAllowed \/ BridgeToken \/ SendMessage \/ Pause \/ Unpause
SpecSender == Init /\ [][NextSender]_vars

\* ================================================================ claims
SignersOf(c) == {c.sigs[i].signer : i \in 1..Len(c.sigs)}
ByDistinctActive(c, n) ==
  /\ Len(c.sigs) = n
  /\ Cardinality(SignersOf(c)) = n
  /\ \A i \in 1..Len(c.sigs) : c.sigs[i].signer \in isRelayer /\ c.sigs[i].digest = c.digest

\* every effect is the first of a consumed digest, and a call that carries a
\* consumed digest is rejected as a replay and changes nothing
ReplayGuarded ==
  /\ \A e \in effects : e.digest \in usedProofs /\ e.n = 1
  /\ \A c \in V3Calls :
       c.digest \in usedProofs =>
         V3Result(c) = [st |-> V3State, reason |-> "proof used"]

\* C1: each digest causes its mint or target call at most once: usedProofs only
\* grows, a digest with an effect is consumed and has exactly one effect, and
\* every call carrying a consumed digest is rejected with "proof used" and
\* changes nothing.
C1_ReplayOnce == [](ReplayGuarded) /\ [][usedProofs \subseteq usedProofs']_vars
C1_Witness ==
  \E c \in V3Calls :
    /\ c.digest \in usedProofs
    /\ Cardinality(EffectsOf(effects, c.digest)) = 1
    /\ ByDistinctActive(c, signatureThreshold(relayerSet))

\* C2: with n >= 1 active relayers and t = signatureThreshold(), a relayer's call
\* on an unconsumed digest with exactly t signatures of t distinct active
\* relayers is accepted, and one with fewer than t signatures is rejected with
\* "not enough signatures".
C2_ThresholdExact ==
  Len(relayerSet) >= 1 =>
    \A c \in RelayerCalls :
      c.digest \notin usedProofs =>
        /\ ByDistinctActive(c, signatureThreshold(relayerSet)) =>
             V3Result(c).reason = "ok"
        /\ Len(c.sigs) < signatureThreshold(relayerSet) =>
             V3Result(c).reason = "not enough signatures"
C2_Witness ==
  /\ Len(relayerSet) >= 2
  /\ \E e \in effects : e.op = "executeMessage"
  /\ \E c \in RelayerCalls :
       /\ c.digest \notin usedProofs
       /\ Len(c.sigs) = signatureThreshold(relayerSet) - 1
       /\ Cardinality(SignersOf(c)) = Len(c.sigs)

\* C3: a quorum check accepts a list only if every supplied signature recovers
\* to an active relayer and no two recover to the same relayer.
C3_AllSignaturesChecked ==
  \A c \in RelayerCalls :
    V3Result(c).reason = "ok" =>
      /\ \A i \in 1..Len(c.sigs) : Recover(c.digest, c.sigs[i]) \in isRelayer
      /\ \A i, j \in 1..Len(c.sigs) :
           i # j => Recover(c.digest, c.sigs[i]) # Recover(c.digest, c.sigs[j])

\* the wrapped token the destination chain maps the intent's token to
WrappedTokenOf(token) == Wrapped

\* C4: a mint on the digest of a TokenTransferIntent is the mint that intent
\* describes: its recipient, its amount, the wrapped token mapped from its token.
C4_MintMatchesIntent ==
  \A e \in effects : \A t \in TokenIntents :
    (e.op = "mintWrapped" /\ e.digest = IntentDigest(t)) =>
      /\ e.party = t.recipient
      /\ e.amount = t.amount
      /\ e.target = WrappedTokenOf(t.token)

DifferOnlyInNonce(m1, m2) == m1.nonce # m2.nonce /\ [m1 EXCEPT !.nonce = m2.nonce] = m2

\* C7: two messages that differ only in nonce have different digests, so once
\* one of them was executed the other, signed by a quorum, is still executed.
C7_NonceSeparatesMessages ==
  \A m1, m2 \in Messages :
    (DifferOnlyInNonce(m1, m2) /\ MessageDigest(m1) \in usedProofs) =>
      \A sigs \in SigLists(MessageDigest(m2)) :
        LET c == ExecCall(m2, MessageDigest(m2), sigs, <<>>) IN
        ByDistinctActive(c, signatureThreshold(relayerSet)) => V3Result(c).reason = "ok"

\* ------------------------------------------------------------------------
\* the fold of the claim, written without the loop of the code
BitOf(bitmask, i) == (bitmask[(i \div 8) + 1] \div (2 ^ (i % 8))) % 2
HashPair(l, r) == Keccak(Bytes32(l) \o Bytes32(r))
FoldOf(leaf, siblings, bitmask) ==
  LET f[k \in 0..Len(siblings)] ==
        IF k = 0 THEN leaf
        ELSE IF BitOf(bitmask, k - 1) = 0 THEN HashPair(f[k - 1], siblings[k])
        ELSE HashPair(siblings[k], f[k - 1])
  IN f[Len(siblings)]

\* C8: for a structurally valid receipt verifyProof is true iff a root is
\* accepted for the header id and the bitmask covers the siblings and the fold
\* of keccak(receipt) through the siblings (bit 0: computed left, bit 1: sibling
\* left, lowest bit first) is that root.
C8_VerifyIffFold ==
  \A r \in Receipts :
    validateReceiptRLP(r) =>
      \A h \in HeaderIds, s \in SiblingLists, m \in Bitmasks :
        verifyProof(receiptsRootOf, h, Proof(r, s, m)) <=>
          /\ receiptsRootOf[h] # ZeroHash
          /\ Len(m) * 8 >= Len(s)
          /\ FoldOf(Keccak(r), s, m) = receiptsRootOf[h]
C8_Witness ==
  \E h \in HeaderIds : \E p \in Proofs :
    /\ validateReceiptRLP(p.receiptRLP)
    /\ Len(p.siblings) = 2 /\ p.bitmask = <<2>>
    /\ verifyProof(receiptsRootOf, h, p)
    /\ \E g \in HeaderIds : receiptsRootOf[g] = ZeroHash
    /\ ~verifyProof(receiptsRootOf, h, [p EXCEPT !.bitmask = <<>>])
    /\ ~verifyProof(receiptsRootOf, h, [p EXCEPT !.bitmask = <<1>>])

\* the proof calls that reach the light client of the deployment
ClientCalls ==
  {c \in ProofCalls : c.lightClient = LightClient /\ GwHash(c) \notin usedSignatures}
InvalidProof == [st |-> GwState, reason |-> "Invalid proof"]

\* C9: a receipt that is not a structurally valid envelope is rejected by
\* verifyProof, whatever root is accepted, and receiveTokensWithProof reverts
\* on it with "Invalid proof".
C9_MalformedRejected ==
  /\ \A r \in Receipts :
       ~validateReceiptRLP(r) =>
         \A h \in HeaderIds, s \in SiblingLists, m \in Bitmasks :
           ~verifyProof(receiptsRootOf, h, Proof(r, s, m))
  /\ \A c \in ClientCalls :
       ~validateReceiptRLP(c.proof.receiptRLP) => GwResult(c) = InvalidProof

\* the receipt's hash is a leaf of the tree the root accepted for h was built
\* from, and the siblings are that leaf's path
BelongsTo(h, p) ==
  \E l \in LeafLists :
    /\ receiptsRootOf[h] = TreeOf(l).root
    /\ \E i \in 1..Len(l) :
         l[i] = Keccak(p.receiptRLP) /\ p.siblings = TreeOf(l).proofs[i]

\* C10: a proof that does not belong to the checkpointed tree is rejected:
\* verifyProof is false and receiveTokensWithProof reverts with "Invalid proof",
\* minting nothing and consuming nothing.
C10_ForeignProofRejected ==
  /\ \A h \in HeaderIds : \A p \in Proofs :
       ~BelongsTo(h, p) => ~verifyProof(receiptsRootOf, h, p)
  /\ \A c \in ClientCalls :
       ~BelongsTo(c.headerRoot, c.proof) => GwResult(c) = InvalidProof

\* C5: every accepting operation marks its digest before the external call: a
\* callee that calls back with the same digest changes nothing (the operation
\* ends as it does without the call back), and no digest has a second effect.
C5_MarkedBeforeCall ==
  /\ \A e \in effects \cup gwEffects : e.n = 1
  /\ \A c \in V3Calls :
       LET res == V3Result(c) IN
       res.reason = "ok" =>
         \A i \in Reentries(c, MaxDepth) : V3Result([c EXCEPT !.inner = i]) = res
  /\ \A c \in GwCalls :
       LET res == GwResult(c) IN
       res.reason = "ok" =>
         \A i \in GwReentries(c, MaxDepth) : GwResult([c EXCEPT !.inner = i]) = res
C5_Witness ==
  /\ \E e \in effects : e.target = Evil /\ e.op = "mintWrapped"
  /\ \E e \in effects : e.target = Evil /\ e.op = "executeMessage"
  /\ \A op \in {"receiveTokens", "receiveTokensWithProof", "unlockTokens", "receiveMessage"} :
       \E e \in gwEffects : e.op = op

\* the mints made for a transfer, by signatures or by proof under any header root
MintsOf(tr) ==
  {e \in gwEffects :
     e.digest \in {receiveHash(tr)} \cup {receiveProofHash(tr, h) : h \in HeaderIds}}

\* C6: a transfer is minted by Gateway at most once, whether by receiveTokens or
\* by receiveTokensWithProof under any header root.
C6_OneMintPerTransfer ==
  \A tr \in GwTransfers : Cardinality(MintsOf(tr)) <= 1

\* ------------------------------------------------ claims on the coordinator
\* the handlers that are between a successful tryAcquireLock and the release
SubmissionPhase == {"submit", "send", "cleanup"}
CallOf(p, d) == submitCall(d, handler[p][d].entry[1].meta, handler[p][d].entry[1].sigs)

\* C11: under every interleaving of the relayer processes the destination
\* gateway performs the effect of a digest at most once, and a submission of a
\* digest that is already consumed is rejected by the replay guard and changes
\* nothing.
C11_EffectOncePerDigest ==
  /\ [](/\ \A d \in CoDigests : Cardinality(EffectsOf(effects, d)) <= 1
        /\ \A e \in effects : e.digest \in usedProofs /\ e.n = 1
        /\ \A p \in Procs, d \in CoDigests :
             handler[p][d].pc = "send" /\ d \in usedProofs =>
               /\ V3Result(CallOf(p, d)).st = V3State
               /\ ~paused => V3Result(CallOf(p, d)).reason = "proof used")
  /\ [][\A d \in usedProofs :
          d \in usedProofs' /\ EffectsOf(effects', d) = EffectsOf(effects, d)]_vars
C11_Witness ==
  \E p \in Procs, d \in CoDigests :
    /\ handler[p][d].pc = "send"
    /\ handler[p][d].attempt = 2
    /\ d \in usedProofs
    /\ ~paused
    /\ Cardinality(EffectsOf(effects, d)) = 1

\* the signatures pooled for a digest in the pending directory
PoolSize(d) == IF pendingFiles[d] = NoFile THEN 0 ELSE Len(Dedup(pendingFiles[d][1].sigs))

\* C12: a digest whose pool has reached the threshold is eventually submitted to
\* the destination by some relayer process, when the processes stay alive and
\* take steps and the destination is reachable.
C12_PooledEventuallySubmitted ==
  \A d \in CoDigests : (PoolSize(d) >= required) ~> (d \in sent)

\* C13: while a lease is unexpired no process replaces it by a lease of another
\* leader: for each destination at most one process is leader at a time.
C13_LeaseExclusive ==
  [][\A n \in DOMAIN leaderFiles :
       leaseValid(leaderFiles[n], DateNow) =>
         leaderFiles'[n] # NoFile /\ leaderFiles'[n][1].leader = leaderFiles[n][1].leader]_vars

\* C14: for each digest at most one process is between a successful
\* tryAcquireLock and the release of the lock, that process is the owner the
\* lock records, and tryAcquireLock fails for everyone while the lock exists.
C14_LockExclusive ==
  \A d \in CoDigests :
    /\ Cardinality({p \in Procs : handler[p][d].pc \in SubmissionPhase}) <= 1
    /\ \A p \in Procs :
         handler[p][d].pc \in SubmissionPhase =>
           lockFiles[d] # NoFile /\ lockFiles[d][1].owner = p
    /\ lockFiles[d] # NoFile =>
         \A p \in Procs : ~tryAcquireLock(lockFiles, d, p, DateNow).ok
C14_Witness ==
  \E d \in CoDigests, p \in Procs, q \in Procs :
    /\ p # q
    /\ handler[p][d].pc = "send"
    /\ handler[q][d].pc = "lock"
    /\ handler[q][d].iAmLeader

\* C15: a lock or a lease left by a killed process can be taken by another
\* process once LEADER_TTL has passed since the time the record carries.
C15_StaleReclaimable ==
  \A p \in dead, q \in Procs \ dead :
    /\ \A d \in CoDigests :
         (/\ lockFiles[d] # NoFile
          /\ lockFiles[d][1].owner = p
          /\ DateNow >= lockFiles[d][1].ts + LEADER_TTL)
         => tryAcquireLock(lockFiles, d, q, DateNow).ok
    /\ \A n \in DOMAIN leaderFiles :
         (/\ leaderFiles[n] # NoFile
          /\ leaderFiles[n][1].leader = p
          /\ DateNow >= leaderFiles[n][1].expires)
         => ~leaseValid(leaderFiles[n], DateNow)

\* the sleeps after the first n failed attempts
Backoffs(n) == [k \in 1..n |-> 200 * 2 ^ (k - 1)]

\* C16: a trySubmit that reaches the loop makes at most maxAttempts attempts,
\* has slept 200 * 2^(k-1) ms after its k-th failed attempt, stops when the
\* attempts are used up, and has released the lock when it leaves the loop.
C16_BoundedRetries ==
  /\ [](\A p \in Procs, d \in CoDigests :
          LET h == handler[p][d] IN
          /\ h.attempt <= maxAttempts
          /\ h.pc = "submit" => h.slept = Backoffs(h.attempt)
          /\ h.pc \in {"send", "cleanup"} => h.slept = Backoffs(h.attempt - 1)
          /\ h.pc = "submit" /\ h.attempt = maxAttempts => ~loopContinues(h))
  /\ [][\A p \in Procs, d \in CoDigests :
          handler[p][d].pc \in SubmissionPhase /\ handler'[p][d].pc = "done"
            => lockFiles'[d] = NoFile]_vars
C16_Witness ==
  \E p \in Procs, d \in CoDigests :
    /\ handler[p][d].pc = "submit"
    /\ handler[p][d].attempt = maxAttempts
    /\ handler[p][d].slept = Backoffs(maxAttempts)

\* C17: the pending record of a digest is deleted only after the submission of
\* that digest has succeeded on the destination chain.
C17_DeletedOnlyAfterSuccess ==
  \A p \in Procs, d \in CoDigests :
    handler[p][d].pc = "cleanup" => d \in usedProofs

\* C18: a process calls mintWrapped / executeMessage only in a trySubmit in
\* which tryElectLeader returned true and tryAcquireLock succeeded, and a
\* process that goes on to trySubmit has published its own signature.
C18_SubmitOnlyAsLockedLeader ==
  /\ [](\A p \in Procs, d \in CoDigests :
          handler[p][d].pc \in SubmissionPhase =>
            handler[p][d].iAmLeader /\ handler[p][d].acquired)
  /\ [][/\ <<usedProofs, effects, sent>> # <<usedProofs', effects', sent'>> =>
             \E p \in Procs, d \in CoDigests :
               /\ handler[p][d].pc = "send" /\ handler'[p][d].pc # "send"
               /\ handler[p][d].iAmLeader /\ handler[p][d].acquired
        /\ \A p \in Procs, d \in CoDigests :
             handler[p][d].pc = "store" /\ handler'[p][d].pc = "try" =>
               \E i \in 1..Len(pendingFiles'[d][1].sigs) :
                 pendingFiles'[d][1].sigs[i] = Sig(p, d)]_vars
C18_Witness ==
  \E d \in CoDigests, p \in Procs, q \in Procs :
    /\ p # q
    /\ handler[p][d].pc = "cleanup"
    /\ handler[q][d] = Returned
    /\ q \notin dead
    /\ d \in usedProofs

\* the identities that signed the signatures of a list
SignersIn(d, sigs) == {Recover(d, sigs[i]) : i \in 1..Len(sigs)}

\* C19: a signature pool holds at most one signature per relayer identity,
\* whatever signatures arrive: the pending file and the in-memory entry of
\* storeSig, and the entry of the aggregator.
C19_OneSignaturePerIdentity ==
  /\ \A d \in CoDigests :
       /\ pendingFiles[d] # NoFile =>
            Cardinality(SignersIn(d, pendingFiles[d][1].sigs)) = Len(pendingFiles[d][1].sigs)
       /\ \A p \in Procs :
            pending[p][d] # <<>> =>
              Cardinality(SignersIn(d, pending[p][d][1].sigs)) = Len(pending[p][d][1].sigs)
  /\ \A hash \in AggHashes :
       aggPending[hash] # <<>> =>
         Cardinality(SignersIn(hash, aggPending[hash][1].signatures))
           = Len(aggPending[hash][1].signatures)

\* what wallet.signMessage(bytes) signs: the prefix (written here without its
\* two control characters) with the decimal length of the message, then the
\* message
signedMessage(bytes) ==
  Keccak(Utf8("Ethereum Signed Message:" \o ToString(ByteLen(bytes))) \o bytes)
\* GatewayV3._recover: the hash the signer is recovered from
ethHash(digest) == Keccak(Utf8("Ethereum Signed Message:32") \o Bytes32(digest))

\* C20: for every MessageSent event the digest the relayer computes and signs
\* is the digest executeMessage recomputes from the arguments the relayer
\* submits: no relayer-built call is rejected with "hash mismatch", and its
\* signatures recover to the relayers that signed.
C20_DigestsAgree ==
  /\ \A ev \in SourceEvents :
       ev.kind = "message" =>
         LET d == EventDigest(ev)
             call == submitCall(d, MetaOf(ev), <<>>)
         IN /\ executeMessage(relayerSet, isRelayer, FALSE, [used |-> {}, effects |-> {}],
                              call).reason # "hash mismatch"
            /\ signedMessage(Bytes32(d)) = ethHash(d)
  /\ \A p \in Procs, d \in CoDigests :
       handler[p][d].pc = "send" /\ handler[p][d].entry[1].meta.kind = "message" =>
         /\ V3Result(CallOf(p, d)).reason # "hash mismatch"
         /\ \A i \in 1..Len(CallOf(p, d).sigs) :
              Recover(d, CallOf(p, d).sigs[i]) = CallOf(p, d).sigs[i].signer
         /\ SignersIn(d, CallOf(p, d).sigs) \subseteq Procs
C20_Witness ==
  \E p \in Procs, d \in CoDigests :
    /\ handler[p][d].pc = "cleanup"
    /\ handler[p][d].entry[1].meta.kind = "message"
    /\ \E e \in effects : e.digest = d /\ e.op = "executeMessage"

\* a result that records nothing: the call is refused and the state is as before
Refused(res, st) == res.reason # "ok" /\ res.st = st

C22_CheckpointImmutable ==
  [][\A h \in HeaderIds :
       receiptsRootOf[h] # ZeroHash => receiptsRootOf'[h] = receiptsRootOf[h]]_vars

\* LightClientMerkle after the owner submitted s1 and then s2
AfterTwo(s1, s2) ==
  submitHeader(submitHeader(MerkleState, Owner, s1[1], s1[2]).st, Owner, s2[1], s2[2]).st

\* C23: after any sequence of submissions every header accepted on the way still
\* maps to the root it was accepted with, so that a proof against it verifies,
\* and latestRoot is the root of the most recent submission.
C23_EveryAcceptedHeaderUsable ==
  \A s1 \in HeaderSubmissions, s2 \in HeaderSubmissions :
    /\ AfterTwo(s1, s2).latestRoot = s2[2]
    /\ AfterTwo(s1, s2).receiptsRootOf[s2[1]] = s2[2]
    /\ s1[2] # ZeroHash => AfterTwo(s1, s2).receiptsRootOf[s1[1]] = s1[2]

\* the active relayers: the addresses with isRelayer true, each listed once
ActiveCount == Cardinality(isRelayer)
ListedOnce ==
  /\ Len(relayerSet) = ActiveCount
  /\ {relayerSet[i] : i \in 1..Len(relayerSet)} = isRelayer

C25_RemovedOnUnstakeOrSlash ==
  [][\A r \in RelayerAddrs :
       stakes'[r] < stakes[r] =>
         /\ r \notin isRelayer'
         /\ \A i \in 1..Len(relayerSet') : relayerSet'[i] # r]_vars

\* the lists that hold the signatures of list s in another order
Reorderings(s) ==
  {[i \in 1..Len(s) |-> s[f[i]]] :
     f \in {g \in [1..Len(s) -> 1..Len(s)] : \A i, j \in 1..Len(s) : g[i] = g[j] => i = j}}

\* C26: the outcome of a quorum check depends on the set of signatures, not on
\* their order: mintWrapped / executeMessage accept a list and each permutation
\* of it alike, in the same state.
C26_OrderIrrelevant ==
  \A c \in V3Calls : \A sigs \in Reorderings(c.sigs) :
    (V3Result(c).reason = "ok") <=> (V3Result([c EXCEPT !.sigs = sigs]).reason = "ok")

\* the leaf lists of the round-trip test: N = 1 .. MaxLeaves + 2
RoundTripLists == {[k \in 1..n |-> LeafOf(k)] : n \in 1..(MaxLeaves + 2)}

\* C27: for every leaf list, each sibling list and bitmask buildMerkle returns
\* for leaf i, folded from that leaf with the verifier's rule, gives the root of
\* the same buildMerkle call; so the proof of every leaf of a checkpointed tree
\* verifies.
C27_ProofsReproduceRoot ==
  /\ \A leaves \in RoundTripLists :
       LET built == buildMerkle(leaves, MAX_ITERATIONS) IN
       /\ ~built.thrown
       /\ \A i \in 1..Len(leaves) :
            /\ Len(built.paths[i]) * 8 >= Len(built.proofs[i])
            /\ FoldOf(leaves[i], built.proofs[i], built.paths[i]) = built.root
  /\ \A h \in HeaderIds : \A leaves \in RoundTripLists \cap LeafLists :
       receiptsRootOf[h] = TreeOf(leaves).root =>
         \A i \in 1..Len(leaves) :
           verifyProof(receiptsRootOf, h,
                       Proof(ReceiptOf(i), TreeOf(leaves).proofs[i], TreeOf(leaves).paths[i]))
C27_Witness ==
  /\ \E h \in HeaderIds : receiptsRootOf[h] = TreeOf([k \in 1..3 |-> LeafOf(k)]).root
  /\ gwEffects # {}
  /\ Len(buildMerkle([k \in 1..(MaxLeaves + 2) |-> LeafOf(k)], MAX_ITERATIONS).proofs[1]) = 3

\* C28: accepting one inclusion proof consumes only the digest of its message:
\* a message already accepted is rejected with "Proof already used", one not
\* yet accepted whose proof verifies is accepted, consumes its own digest and
\* nothing else, and leaves every other message as acceptable as it was.
C28_OnlyOwnDigestConsumed ==
  /\ [](/\ \A e \in gwEffects : e.n = 1 /\ e.digest \in usedSignatures
        /\ \A c \in BatchCalls :
             IF GwHash(c) \in usedSignatures
             THEN GwResult(c) = [st |-> GwState, reason |-> "Proof already used"]
             ELSE verifyProof(receiptsRootOf, c.headerRoot, c.proof) =>
                    /\ GwResult(c).reason = "ok"
                    /\ GwResult(c).st.used = usedSignatures \cup {GwHash(c)}
                    /\ \A d \in BatchCalls :
                         GwHash(d) # GwHash(c) =>
                           GwCall(GwResult(c).st, d).reason = GwResult(d).reason)
  /\ [][/\ usedSignatures \subseteq usedSignatures'
        /\ Cardinality(usedSignatures' \ usedSignatures) <= 1]_vars
C28_Witness ==
  /\ receiptsRootOf[RootId] = RootId
  /\ \A i \in 2..MaxLeaves : receiveProofHash(TransferOf(i), RootId) \in usedSignatures
  /\ receiveProofHash(TransferOf(1), RootId) \notin usedSignatures
  /\ \E c \in BatchCalls :
       /\ GwHash(c) = receiveProofHash(TransferOf(1), RootId)
       /\ GwResult(c).reason = "ok"

\* C29: bridgeToken and sendMessage succeed only for a destination chain that is
\* enabled in the registry at the time of the call (bridgeToken only for a token
\* allowed for that chain); a call that names another chain reverts with "dest
\* chain disabled" when the gateway is not paused and leaves the nonce and the
\* balances as they were.
C29_OnlyEnabledDestination ==
  /\ [](/\ \A c \in BridgeCalls :
             /\ BridgeResult(c).reason = "ok" =>
                  /\ c.toChainId \in registry.enabled
                  /\ <<c.toChainId, c.token>> \in registry.allowed
             /\ c.toChainId \notin registry.enabled =>
                  /\ BridgeResult(c).st = SenderState
                  /\ ~paused => BridgeResult(c).reason = "dest chain disabled"
        /\ \A c \in SendCalls :
             /\ SendResult(c).reason = "ok" => c.toChainId \in registry.enabled
             /\ c.toChainId \notin registry.enabled =>
                  /\ SendResult(c).st = SenderState
                  /\ ~paused => SendResult(c).reason = "dest chain disabled")
  /\ [][nonce' # nonce \/ balances' # balances =>
          /\ registry.enabled # {}
          /\ nonce' = nonce + 1
          /\ balances' # balances => registry.allowed # {}]_vars
C29_Witness ==
  /\ nonce = MaxNonce
  /\ balances[GatewayV3Addr] > 0
  /\ registry.enabled = {}
  /\ registry.allowed # {}
  /\ ~paused

\* C30: a digest becomes consumed in a call exactly when that call is an
\* acceptance whose mint or target call was performed: a rejected call leaves
\* usedProofs and the effects as they were, and no digest is consumed without
\* its effect.
C30_ConsumedIffEffect ==
  /\ [](/\ \A d \in usedProofs : EffectsOf(effects, d) # {}
        /\ \A c \in V3Calls \cup FailingCalls :
             V3Result(c).reason # "ok" => V3Result(c).st = V3State)
  /\ [][\A d \in usedProofs' \ usedProofs : EffectsOf(effects', d) # {}]_vars

\* C31: the hash the PoC relayer builds and signs for a TokensSent or
\* MessageSent event is the hash receiveTokens / receiveMessage computes for
\* the destination call of that event, so the signature recovers there to the
\* relayer that made it.
C31_PocHashesAgree ==
  /\ \A ev \in TokensSentEvents, r \in gateway.isRelayer :
       LET c == ReceiveTokensFor(ev, r)
       IN /\ tokensSentHash(ev) = GwHash(c)
          /\ Recover(GwHash(c), c.sigs[1]) = r
          /\ GwResult(c).reason # "Invalid signer"
  /\ \A ev \in MessageSentEvents, r \in gateway.isRelayer :
       LET c == ReceiveMessageFor(ev, Receiver, r)
       IN /\ messageSentHash(ev) = GwHash(c)
          /\ Recover(GwHash(c), c.sigs[1]) = r
          /\ GwResult(c).reason # "Invalid signer"

\* the receipts that state the transfer of call c, under any header root
ReceiptsOfCall(c) ==
  LET tr == [originalSender |-> c.party, originalToken |-> c.token,
             amount |-> c.amount, fromChainId |-> c.fromChainId]
  IN {makeReceiptRLP(receiveProofHash(tr, h)) : h \in HeaderIds \cup {ZeroHash}}

\* C32: receiveTokensWithProof, asked through the gateway's light client, mints
\* (originalSender, originalToken, amount) only when the receipt proven under
\* the header root is the receipt of that same transfer.
C32_MintOnlyProvenTransfer ==
  \A c \in ProofCalls \cup ForgedCalls :
    c.lightClient = LightClient /\ GwResult(c).reason = "ok" =>
      c.proof.receiptRLP \in ReceiptsOfCall(c)

\* C33: every mint by proof was made under a header root recorded in the light
\* client the gateway was deployed with: a light client of the caller's choosing
\* obtains no mint.
C33_OnlyTrustedLightClient ==
  [][\A e \in gwEffects' \ gwEffects :
       e.op = "receiveTokensWithProof" =>
         \E h \in HeaderIds :
           /\ receiptsRootOf[h] # ZeroHash
           /\ e.digest \in {receiveProofHash(tr, h) : tr \in GwTransfers}]_vars

\* the two children of the interior node above leaf i (i odd) of leaf list l,
\* concatenated: what keccak256 is applied to when the node is built
NodeBytes(l, i) ==
  Bytes32(l[i]) \o Bytes32(IF i + 1 <= Len(l) THEN l[i + 1] ELSE ZeroHash)

\* C34: the 64 bytes of an interior node of the checkpointed tree, presented as
\* the receipt with the upper part of the path as siblings, are not accepted by
\* verifyProof, and receiveTokensWithProof reverts on them with "Invalid proof".
C34_InteriorNodeRejected ==
  /\ \A l \in LeafLists, h \in HeaderIds :
       receiptsRootOf[h] = TreeOf(l).root /\ Len(l) >= 2 =>
         \A i \in {k \in 1..Len(l) : k % 2 = 1}, m \in Bitmasks :
           ~verifyProof(receiptsRootOf, h,
                        Proof(NodeBytes(l, i), Tail(TreeOf(l).proofs[i]), m))
  /\ \A c \in ClientCalls :
       c.proof.receiptRLP = NodeReceipt => GwResult(c) = InvalidProof

\* the calls the signature paths of the gateway can be given
SignedCalls == ReceiveCalls \cup UnlockCalls \cup MessageCalls

\* C35: every call receiveTokens, unlockTokens or receiveMessage accepts carries
\* at least one signature of an active relayer over the call's digest, whatever
\* threshold and relayer set the admin has configured.
C35_AcceptedHasRelayerSignature ==
  \A c \in SignedCalls :
    GwResult(c).reason = "ok" =>
      \E i \in 1..Len(c.sigs) : Recover(GwHash(c), c.sigs[i]) \in gateway.isRelayer

\* C36: a signature written to the pending file of a digest stays in it as long
\* as the file exists: no write of storeSig by another process drops it.
C36_NoPublishedSignatureLost ==
  [][\A d \in CoDigests :
       pendingFiles[d] # NoFile /\ pendingFiles'[d] # NoFile =>
         Range(pendingFiles[d][1].sigs) \subseteq Range(pendingFiles'[d][1].sigs)]_vars

\* the tree as the documentation describes it: adjacent nodes paired left to
\* right, an odd last node paired with the zero hash
PairedLevel(nodes) ==
  [j \in 1..((Len(nodes) + 1) \div 2) |->
     HashPair(nodes[2 * j - 1], IF 2 * j <= Len(nodes) THEN nodes[2 * j] ELSE ZeroHash)]
RECURSIVE PairedRoot(_)
PairedRoot(nodes) == IF Len(nodes) = 1 THEN nodes[1] ELSE PairedRoot(PairedLevel(nodes))
\* the siblings of the node at position k (from 1), bottom up
RECURSIVE PairedSiblings(_, _)
PairedSiblings(nodes, k) ==
  IF Len(nodes) = 1 THEN <<>>
  ELSE LET other == IF k % 2 = 1 THEN k + 1 ELSE k - 1
       IN <<IF other <= Len(nodes) THEN nodes[other] ELSE ZeroHash>>
            \o PairedSiblings(PairedLevel(nodes), (k + 1) \div 2)

\* C37: buildMerkle pairs adjacent nodes left to right at each level and pairs
\* an odd last node with the zero hash, which is then that node's sibling in
\* its proof; one leaf gives the leaf as root and an empty sibling list.  The
\* last leaf of a checkpointed tree of odd size verifies with that proof.
C37_OddLevelPairsWithZero ==
  /\ \A leaves \in RoundTripLists :
       LET built == buildMerkle(leaves, MAX_ITERATIONS) IN
       /\ built.root = PairedRoot(leaves)
       /\ \A i \in 1..Len(leaves) : built.proofs[i] = PairedSiblings(leaves, i)
       /\ Len(leaves) % 2 = 1 /\ Len(leaves) > 1 =>
            built.proofs[Len(leaves)][1] = ZeroHash
       /\ Len(leaves) = 1 => built.root = leaves[1] /\ built.proofs = <<<<>>>>
  /\ \A h \in HeaderIds, leaves \in LeafLists :
       receiptsRootOf[h] = TreeOf(leaves).root /\ Len(leaves) = 3 =>
         /\ TreeOf(leaves).proofs[3][1] = ZeroHash
         /\ ByteAt(ReceiptOf(3), 0) >= 192 =>
              verifyProof(receiptsRootOf, h,
                          Proof(ReceiptOf(3), TreeOf(leaves).proofs[3], TreeOf(leaves).paths[3]))
C37_Witness ==
  /\ receiptsRootOf[BlockId] = TreeOf([k \in 1..3 |-> LeafOf(k)]).root
  /\ receiptsRootOf[RootId] = TreeOf(<<LeafOf(1)>>).root
  /\ TreeOf(<<LeafOf(1)>>).root = LeafOf(1)
  /\ TreeOf([k \in 1..3 |-> LeafOf(k)]).proofs[3] =
       <<ZeroHash, HashPair(LeafOf(1), LeafOf(2))>>

\* ceil(log2 n): the least k with 2^k >= n
CeilLog2(n) == CHOOSE k \in 0..n : 2 ^ k >= n /\ \A j \in 0..(k - 1) : 2 ^ j < n
\* the values of opts.maxIterations tried, and the default
IterationLimits == 0..MaxLeaves \cup {MAX_ITERATIONS}

\* C38: every level buildMerkle produces is strictly shorter than the one it
\* was made from, N leaves take ceil(log2 N) iterations, and the call throws
\* exactly when that number exceeds maxIterations.
C38_TerminatesWithinLimit ==
  /\ \A leaves \in RoundTripLists, limit \in IterationLimits :
       LET layers == MerkleLayers(<<leaves>>, 0, limit)
           built == buildMerkle(leaves, limit)
       IN /\ built.thrown <=> CeilLog2(Len(leaves)) > limit
          /\ ~built.thrown =>
               /\ Len(layers) - 1 = CeilLog2(Len(leaves))
               /\ \A k \in 1..(Len(layers) - 1) : Len(layers[k + 1]) < Len(layers[k])
               /\ Len(layers[Len(layers)]) = 1
  /\ \A h \in HeaderIds, leaves \in LeafLists :
       receiptsRootOf[h] = TreeOf(leaves).root =>
         /\ ~TreeOf(leaves).thrown
         /\ \A limit \in IterationLimits :
              limit >= CeilLog2(Len(leaves)) =>
                buildMerkle(leaves, limit).root = receiptsRootOf[h]
C38_Witness ==
  LET leaves == [k \in 1..3 |-> LeafOf(k)] IN
  /\ receiptsRootOf[BlockId] = TreeOf(leaves).root
  /\ buildMerkle(leaves, 1).thrown
  /\ ~buildMerkle(leaves, 2).thrown
  /\ Len(MerkleLayers(<<leaves>>, 0, MAX_ITERATIONS)) = 3

\* while a gateway is paused each of its bridging calls is refused and would
\* leave the state as it is; a caller who is not authorized cannot pause or
\* unpause
PausedRefusesAll ==
  /\ paused =>
       /\ \A c \in V3Calls : V3Result(c) = [st |-> V3State, reason |-> "EnforcedPause"]
       /\ \A c \in BridgeCalls :
            BridgeResult(c) = [st |-> SenderState, reason |-> "EnforcedPause"]
       /\ \A c \in SendCalls :
            SendResult(c) = [st |-> SenderState, reason |-> "EnforcedPause"]
  /\ gateway.paused =>
       /\ \A c \in GwCalls : GwResult(c) = [st |-> GwState, reason |-> "Contract paused"]
       /\ \A c \in GwSendCalls :
            GwSendResult(c) = [st |-> GwState, reason |-> "Contract paused"]
OnlyAuthorizedPause ==
  /\ \A caller \in PauseCallers \ {Owner} :
       /\ GatewayV3_pause(paused, caller).reason = "OwnableUnauthorizedAccount"
       /\ GatewayV3_unpause(paused, caller).reason = "OwnableUnauthorizedAccount"
  /\ \A caller \in GatewayPauseCallers \ {Owner, gateway.multisig} :
       /\ Gateway_pause(gateway, caller) = [g |-> gateway, reason |-> "not authorized"]
       /\ Gateway_unpause(gateway, caller) = [g |-> gateway, reason |-> "not authorized"]

\* C39: the pause state of a gateway changes only in a pause / unpause step of
\* an authorized caller (the owner for GatewayV3, the owner or the configured
\* multisig for Gateway), and while a gateway is paused none of its bridging
\* operations succeeds or changes state.
C39_PauseStopsBridging ==
  /\ [](PausedRefusesAll /\ OnlyAuthorizedPause)
  /\ [][/\ paused => UNCHANGED <<usedProofs, effects, nonce, balances>>
        /\ paused' # paused =>
             /\ UNCHANGED <<usedProofs, effects, nonce, balances, registry>>
             /\ paused' \in {GatewayV3_pause(paused, Owner).paused,
                             GatewayV3_unpause(paused, Owner).paused}
        /\ gateway.paused => UNCHANGED <<usedSignatures, gwEffects>>
        /\ gateway.paused' # gateway.paused =>
             /\ UNCHANGED <<usedSignatures, gwEffects>>
             /\ \E caller \in {Owner, gateway.multisig} :
                  gateway' \in {Gateway_pause(gateway, caller).g,
                                Gateway_unpause(gateway, caller).g}]_vars
C39_Witness ==
  /\ paused /\ gateway.paused
  /\ gateway.multisig = MultisigAddr
  /\ usedProofs # {} /\ nonce > 0
  /\ usedSignatures # {} /\ \E e \in gwEffects : e.op = "sendTokens"


\* ------------------------------------------------------------------ C40
\* distinct owners that confirmed transaction txId
ConfirmersOf(w, txId) == {o \in w.owners : <<txId, o>> \in w.confirmations}
SubmittedTxIds == {txId \in TxIds : txId < Len(wallet.transactions)}
\* the count of a transaction is the number of distinct owners that confirmed
\* it, an executed transaction has at least `required` of them, and the
\* wallet answers "already confirmed", "not enough confirmations" and
\* "already executed" without changing anything
WalletCountsDistinctOwners ==
  \A txId \in SubmittedTxIds :
    LET t == wallet.transactions[txId + 1] IN
    /\ t.confirmations = Cardinality(ConfirmersOf(wallet, txId))
    /\ \A pair \in wallet.confirmations : pair[2] \in wallet.owners
    /\ t.executed => Cardinality(ConfirmersOf(wallet, txId)) >= wallet.required
    /\ \A caller \in WalletOwners :
         LET ex == executeTransaction(wallet, gateway, caller, txId)
             co == confirmTransaction(wallet, gateway, caller, txId) IN
         /\ t.executed => ex = WalletRefuses(wallet, gateway, "already executed")
         /\ (~t.executed /\ Cardinality(ConfirmersOf(wallet, txId)) < wallet.required)
              => ex = WalletRefuses(wallet, gateway, "not enough confirmations")
         /\ caller \in ConfirmersOf(wallet, txId)
              => co = WalletRefuses(wallet, gateway, "already confirmed")
\* a step executes a transaction only from not executed, with enough distinct
\* confirmations, and an executed transaction stays executed
WalletExecutesOnce ==
  \A txId \in SubmittedTxIds :
    LET t == wallet.transactions[txId + 1] IN
    /\ t.executed => /\ wallet'.transactions[txId + 1].executed
                     /\ wallet'.transactions[txId + 1] = t
    /\ (~t.executed /\ wallet'.transactions[txId + 1].executed)
         => Cardinality(ConfirmersOf(wallet, txId)) >= wallet.required
\* C40: a SimpleMultiSig transaction takes effect at most once and only with at
\* least `required` confirmations by distinct owners; executing with fewer is
\* refused "not enough confirmations", executing again "already executed", and
\* one owner confirming repeatedly never counts more than once.
C40_ExecutedOnceWithQuorum ==
  [](WalletCountsDistinctOwners) /\ [][WalletExecutesOnce]_vars
\* one transaction executed by both owners has paused the gateway, another
\* with a single confirmation is waiting
C40_Witness ==
  /\ Len(wallet.transactions) = MaxTx
  /\ wallet.transactions[1].executed
  /\ wallet.transactions[1].data = "pause()"
  /\ gateway.paused
  /\ ConfirmersOf(wallet, 0) = WalletOwners
  /\ ~wallet.transactions[MaxTx].executed
  /\ Cardinality(ConfirmersOf(wallet, MaxTx - 1)) = 1

====
